---- MODULE Spec2Model ----
(***************************************************************************)
(* Model of the rhythmic traffic-analysis pipeline (src/src/python):       *)
(* SignalDecomposer.decompose, FourierAnalyzer.analyze,                    *)
(* SpikeDetector.detect, TrafficModeler.model and validate_model.          *)
(*                                                                         *)
(* Real numbers are carried in fixed point: a sample value x is the        *)
(* integer x * FP.  Quantities the code only compares are compared by      *)
(* exact integer cross-multiplication where 32-bit integers allow it.      *)
(* The mean magnitude of a merged spike event is computed in floating      *)
(* point with MantissaBits significant bits, rounding to nearest, ties to  *)
(* even, as the interpreter does with 53 bits.  The spike rate per day is   *)
(* computed with the interpreter's own 53-bit divisions.                   *)
(***************************************************************************)
EXTENDS Integers, Sequences, FiniteSets, TLC

(***************************************************************************)
(* Arithmetic helpers (numpy / builtins).                                  *)
(***************************************************************************)
Abs(x) == IF x < 0 THEN -x ELSE x

Max2(a, b) == IF a >= b THEN a ELSE b

Min2(a, b) == IF a <= b THEN a ELSE b

RECURSIVE SumRange(_, _, _)
SumRange(s, lo, hi) ==
    IF lo > hi THEN 0
    ELSE IF lo = hi THEN s[lo]
    ELSE LET mid == (lo + hi) \div 2
         IN  SumRange(s, lo, mid) + SumRange(s, mid + 1, hi)

\* sum(xs) / np.sum(xs)
SumSeq(s) == SumRange(s, 1, Len(s))

RECURSIVE MaxRange(_, _, _)
MaxRange(s, lo, hi) ==
    IF lo = hi THEN s[lo]
    ELSE LET mid == (lo + hi) \div 2
         IN  Max2(MaxRange(s, lo, mid), MaxRange(s, mid + 1, hi))

\* max(xs) / np.max(xs), for a non-empty sequence
MaxSeq(s) == MaxRange(s, 1, Len(s))

RECURSIVE MinRange(_, _, _)
MinRange(s, lo, hi) ==
    IF lo = hi THEN s[lo]
    ELSE LET mid == (lo + hi) \div 2
         IN  Min2(MinRange(s, lo, mid), MinRange(s, mid + 1, hi))

\* min(xs) / np.min(xs), for a non-empty sequence
MinSeq(s) == MinRange(s, 1, Len(s))

RECURSIVE SqrtIter(_, _, _)
SqrtIter(n, lo, hi) ==
    IF lo >= hi THEN lo
    ELSE LET mid == (lo + hi + 1) \div 2
         IN  IF mid <= n \div mid THEN SqrtIter(n, mid, hi)
             ELSE SqrtIter(n, lo, mid - 1)

\* floor of the square root (np.sqrt inside np.std), n >= 0
isqrt(n) == IF n <= 0 THEN 0 ELSE SqrtIter(n, 1, Min2(n, 46340))

\* a function on 1..n as an evaluated tuple (np.ndarray / list)
AsSeq(f) == f \o <<>>

RECURSIVE DivDigits(_, _, _, _)
DivDigits(q, r, c, digits) ==
    IF digits = 0 THEN q
    ELSE DivDigits(q * 10 + (r * 10) \div c, (r * 10) % c, c, digits - 1)

\* floor(a * 10^digits / c) by long division, 0 <= a, 0 < c
ScaledDiv(a, c, digits) == DivDigits(a \div c, a % c, c, digits)

(***************************************************************************)
(* Fixed-point scales.                                                     *)
(***************************************************************************)
\* a sample value x is stored as x * FP
FP == 100

\* the db4 filter taps are stored as tap * TapScale
TapScale == 10000

\* energies are sums of squares of x * FP / EnergyDiv
EnergyDiv == 10

(***************************************************************************)
(* pywt.wavedec(signal, 'db4', level) with pywt's default signal extension *)
(* mode 'symmetric' (half-sample symmetric).                               *)
(***************************************************************************)
\* db4 decomposition low-pass filter, taps * TapScale, rounded so that the
\* taps sum to sqrt(2) * TapScale and the high-pass taps sum to 0
dec_lo == <<-106, 329, 308, -1870, -280, 6308, 7149, 2304>>

\* db4 decomposition high-pass filter: the quadrature mirror of dec_lo
dec_hi == [j \in 1..8 |-> IF j % 2 = 1 THEN -dec_lo[9 - j] ELSE dec_lo[9 - j]]

\* filter length of db4
FilterLen == 8

RECURSIVE Reflect(_, _)
\* 0-based index i of the symmetric extension of a length-n signal
Reflect(i, n) ==
    IF i < 0 THEN Reflect(-i - 1, n)
    ELSE IF i >= n THEN Reflect(2 * n - 1 - i, n)
    ELSE i

\* one output coefficient: sum_j filter[j] * x_ext[2*o + 1 - j], rescaled
Convolve(x, filt, o) ==
    LET n == Len(x)
        term(j) == filt[j + 1] * x[Reflect(2 * o + 1 - j, n) + 1]
    IN  (term(0) + term(1) + term(2) + term(3)
         + term(4) + term(5) + term(6) + term(7)) \div TapScale

\* pywt.dwt_coeff_len: floor((n + F - 1) / 2)
dwt_coeff_len(n) == (n + FilterLen - 1) \div 2

\* pywt.dwt: <<cA, cD>> of one level
dwt(x) ==
    LET m == dwt_coeff_len(Len(x))
    IN  <<AsSeq([o \in 1..m |-> Convolve(x, dec_lo, o - 1)]),
          AsSeq([o \in 1..m |-> Convolve(x, dec_hi, o - 1)])>>

RECURSIVE wavedec_rec(_, _, _)
wavedec_rec(a, level, details) ==
    IF level = 0 THEN <<a>> \o details
    ELSE LET ad == dwt(a)
         IN  wavedec_rec(ad[1], level - 1, <<ad[2]>> \o details)

\* coeffs = [cA_L, cD_L, ..., cD_1]
wavedec(signal, level) == wavedec_rec(signal, level, <<>>)

(***************************************************************************)
(* utils/math_utils.py                                                     *)
(***************************************************************************)
\* calculate_energy: np.sum(signal ** 2)
calculate_energy(signal) ==
    SumSeq(AsSeq([i \in 1..Len(signal) |->
                    (signal[i] \div EnergyDiv) * (signal[i] \div EnergyDiv)]))

\* np.convolve(signal, np.ones(w) / w, mode='same'): the full convolution has
\* len(signal) + w - 1 entries, entry k (from 0) being the mean over w of the
\* samples k - w + 1 .. k that exist; 'same' keeps max(len(signal), w) of them,
\* starting at (min(len(signal), w) - 1) // 2.  An empty signal raises ValueError.
convolve_same(signal, w) ==
    LET n == Len(signal)
        first == (Min2(n, w) - 1) \div 2
        full(k) == SumRange(signal, Max2(0, k - w + 1) + 1, Min2(k, n - 1) + 1)
    IN  AsSeq([i \in 1..Max2(n, w) |-> [num |-> full(first + i - 1), den |-> w]])

\* smooth_signal: the samples as fractions, or the exception raised
smooth_signal(signal, window_size) ==
    IF window_size <= 1
    THEN [raised |-> "none",
          value |-> AsSeq([i \in 1..Len(signal) |-> [num |-> signal[i], den |-> 1]])]
    ELSE IF Len(signal) = 0
    THEN [raised |-> "ValueError", value |-> << >>]
    ELSE [raised |-> "none", value |-> convolve_same(signal, window_size)]

RECURSIVE NextPow2From(_, _)
NextPow2From(p, n) == IF p >= n THEN p ELSE NextPow2From(2 * p, n)

\* 2 ** int(np.ceil(np.log2(n))), n >= 1
next_power(n) == NextPow2From(1, n)

\* padding with zeros in place of the last sample
pad_to_power_of_two_zeros(signal) ==
    LET original_length == Len(signal)
        np2 == next_power(original_length)
    IN  <<AsSeq([i \in 1..np2 |->
                   IF i <= original_length THEN signal[i] ELSE 0]),
          original_length>>

\* pad_to_power_of_two: <<padded, original_length>>
pad_to_power_of_two(signal) ==
    LET original_length == Len(signal)
        np2 == next_power(original_length)
    IN  IF np2 = original_length THEN <<signal, original_length>>
        ELSE <<AsSeq([i \in 1..np2 |->
                        IF i <= original_length THEN signal[i]
                        ELSE signal[original_length]]),
               original_length>>

(***************************************************************************)
(* processors/signal_decomposer.py                                         *)
(***************************************************************************)
\* default number of decomposition levels
levels == 5

\* 2 ** levels
min_length == 32

\* np.pad(signal, (0, min_length - len(signal)), mode='edge')
pad_edge(signal) ==
    IF Len(signal) < min_length
    THEN AsSeq([i \in 1..min_length |->
                  IF i <= Len(signal) THEN signal[i] ELSE signal[Len(signal)]])
    ELSE signal

\* e / total_energy * 100 if total_energy > 0 else 0, in hundredths of a percent
energy_percentage(e, total_energy) ==
    IF total_energy > 0 THEN ScaledDiv(e, total_energy, 4) ELSE 0

\* the try-branch of decompose: wavedec succeeded
decompose_ok(signal, original_length) ==
    LET coeffs == wavedec(signal, levels)
        approximation == coeffs[1]
        details == Tail(coeffs)
        total_energy == calculate_energy(signal)
        approx_energy == calculate_energy(approximation)
        detail_energies ==
            AsSeq([k \in 1..Len(details) |-> calculate_energy(details[k])])
        detail_total_energy == SumSeq(detail_energies)
        energy_dist == <<approx_energy>> \o detail_energies
    IN  [approximation |-> approximation,
         details |-> details,
         levels |-> Len(details),
         original_length |-> original_length,
         \* smoothness_ratio in hundredths of a percent (1.0 = 10000)
         smoothness_ratio |->
            IF total_energy > 0
            THEN ScaledDiv(approx_energy, approx_energy + detail_total_energy, 4)
            ELSE 0,
         energy_distribution |->
            AsSeq([k \in 1..Len(energy_dist) |->
                     energy_percentage(energy_dist[k], total_energy)])]

\* the except-branch of decompose: wavedec raised
decompose_fallback(signal, original_length) ==
    [approximation |-> signal,
     details |-> <<>>,
     levels |-> 0,
     original_length |-> original_length,
     smoothness_ratio |-> 10000,
     energy_distribution |-> <<10000>>]

\* decompose(signal) for len(signal) >= 4; wavedec_raises is whether
\* pywt.wavedec raised inside the try block
decompose(signal, wavedec_raises) ==
    LET original_length == Len(signal)
        padded == pad_edge(signal)
    IN  IF wavedec_raises THEN decompose_fallback(padded, original_length)
        ELSE decompose_ok(padded, original_length)

(***************************************************************************)
(* processors/spike_detector.py                                            *)
(* Sample values are integers; timestamps are milliseconds.                *)
(***************************************************************************)
\* default SpikeDetector.threshold_sigma
threshold_sigma == 3

\* default max_gap_minutes of _cluster_spikes
max_gap_minutes == 10

\* milliseconds per minute: 60 * 1000
MsPerMinute == 60000

\* detect returns the empty result below this length
min_detect_length == 10

\* the elements of a finite set of integers in increasing order
SortedSeqOf(S) ==
    AsSeq([k \in 1..Cardinality(S) |->
             CHOOSE e \in S : Cardinality({x \in S : x < e}) = k - 1])

\* signal_stats: n, sum and sum of squares (mean = sum/n, var = sq/n - mean^2)
signal_sums(signal) ==
    [n |-> Len(signal),
     sum |-> SumSeq(signal),
     sq |-> SumSeq(AsSeq([i \in 1..Len(signal) |-> signal[i] * signal[i]]))]

\* n^2 * variance
scaled_variance(st) == st.n * st.sq - st.sum * st.sum

\* value > mean + threshold_sigma * std, decided exactly:
\* n*value - sum > sigma * sqrt(n*sq - sum^2)
exceeds_threshold(value, st) ==
    LET d == st.n * value - st.sum
    IN  /\ d > 0
        /\ d * d > threshold_sigma * threshold_sigma * scaled_variance(st)

\* threshold = mean + threshold_sigma * std, as value * FP
threshold_of(st) ==
    (st.sum * FP) \div st.n
    + (threshold_sigma * isqrt(scaled_variance(st)) * FP) \div st.n

\* one raw detection (the fields the later stages read)
raw_spike(i, signal, method) ==
    [index |-> i,
     timestamp |-> i * 60 * 1000,
     magnitude |-> signal[i + 1],
     method |-> method]

\* _detect_direct_spikes
detect_direct_spikes(signal) ==
    LET st == signal_sums(signal)
        hits == {i \in 0..(Len(signal) - 1) : exceeds_threshold(signal[i + 1], st)}
        idx == SortedSeqOf(hits)
    IN  AsSeq([k \in 1..Len(idx) |-> raw_spike(idx[k], signal, "direct")])

\* np.interp(np.linspace(0, 1, target_length), np.linspace(0, 1, len(detail)),
\* detail)[t], t 0-based
interp_at(detail, target_length, t) ==
    LET L == Len(detail)
    IN  IF L = 1 \/ target_length = 1 THEN detail[1]
        ELSE LET pos == t * (L - 1)
                 j == pos \div (target_length - 1)
                 r == pos % (target_length - 1)
             IN  IF r = 0 THEN detail[j + 1]
                 ELSE detail[j + 1]
                      + ((detail[j + 2] - detail[j + 1]) * r) \div (target_length - 1)

RECURSIVE Pow2(_)
Pow2(k) == IF k = 0 THEN 1 ELSE 2 * Pow2(k - 1)

\* every band weighted alike
band_weight_unit(level) == 1

\* weight of the band at 0-based position level of detail_coeffs: 2 ** level
band_weight(level) == Pow2(level)

\* _combine_detail_coefficients
combine_detail_coefficients(detail_coeffs, target_length) ==
    IF Len(detail_coeffs) = 0 THEN <<>>
    ELSE AsSeq([t \in 1..target_length |->
            SumSeq(AsSeq([k \in 1..Len(detail_coeffs) |->
                IF Len(detail_coeffs[k]) = 0 THEN 0
                ELSE band_weight(k - 1)
                     * interp_at(detail_coeffs[k], target_length, t - 1)]))])

\* weight of the i-th band (i from 0) of reversed(details): 2 ** i
hf_weight(i) == Pow2(i)

\* SignalDecomposer.get_high_frequency_component: the bands are brought to
\* the length of the last one and summed; np.interp raises ValueError for an
\* empty band of another length than a non-empty last band
get_high_frequency_component(details) ==
    IF Len(details) = 0 THEN [raised |-> "none", value |-> << >>]
    ELSE LET n == Len(details)
             length == Len(details[n])
             resized(detail, t) ==
                 IF Len(detail) = length THEN detail[t]
                 ELSE interp_at(detail, length, t - 1)
         IN  IF length > 0 /\ \E p \in 1..n : Len(details[p]) = 0
             THEN [raised |-> "ValueError", value |-> << >>]
             ELSE [raised |-> "none",
                   value |-> AsSeq([t \in 1..length |->
                       SumSeq(AsSeq([p \in 1..n |->
                           hf_weight(n - p) * resized(details[p], t)]))])]

\* largest |x| for which n squares x*x can be summed in 32 bits
norm_bound(n) == isqrt(2000000000 \div n)

\* np.mean and np.std of a non-empty vector, in the vector's own scale: the
\* deviations from the mean are rescaled by 1/div so that their squares can
\* be summed; sq = 0 exactly when std = 0, and std16 is 16 * std / div
mean_std(h) ==
    LET n == Len(h)
        mean == SumSeq(h) \div n
        top == Max2(MaxSeq(h) - mean, mean - MinSeq(h))
        div == (top \div norm_bound(n)) + 1
        sq == SumSeq(AsSeq([i \in 1..n |->
                              ((h[i] - mean) \div div) * ((h[i] - mean) \div div)]))
    IN  [mean |-> mean,
         div |-> div,
         sq |-> sq,
         std16 |-> (isqrt(sq) * 1600) \div isqrt(n * 10000)]

\* np.std from mean_std, in the vector's scale
std_of(st) == (st.std16 * st.div) \div 16

\* hf_threshold = hf_mean + threshold_sigma * hf_std
hf_threshold(st) == st.mean + (threshold_sigma * st.std16 * st.div) \div 16

\* _detect_wavelet_spikes
detect_wavelet_spikes(high_freq_signal, original_signal) ==
    IF Len(high_freq_signal) = 0 THEN <<>>
    ELSE LET st == mean_std(high_freq_signal)
         IN  IF st.sq = 0 THEN <<>>
             ELSE LET thr == Abs(hf_threshold(st))
                      hits == {i \in 0..(Len(high_freq_signal) - 1) :
                                 /\ Abs(high_freq_signal[i + 1]) > thr
                                 /\ i < Len(original_signal)}
                      idx == SortedSeqOf(hits)
                  IN  AsSeq([k \in 1..Len(idx) |->
                               raw_spike(idx[k], original_signal, "wavelet")])

\* _format_spike_event; magnitudes are fractions num/den
format_spike_event(spike) ==
    [timestamp |-> spike.timestamp,
     magnitude |-> [num |-> spike.magnitude, den |-> 1],
     peak_magnitude |-> spike.magnitude,
     duration_minutes |-> 1,
     spike_count |-> 1]

\* sorted(spikes, key=lambda x: x['timestamp']): the sort is stable, so
\* the element at position p is the one preceded by exactly p - 1 others, where
\* j precedes i when its timestamp is smaller, or equal and j comes first
sorted_by_timestamp(spikes) ==
    LET n == Len(spikes)
        rank == AsSeq([i \in 1..n |->
                    Cardinality({j \in 1..n :
                        \/ spikes[j].timestamp < spikes[i].timestamp
                        \/ /\ spikes[j].timestamp = spikes[i].timestamp
                           /\ j < i})])
    IN  AsSeq([p \in 1..n |-> spikes[CHOOSE i \in 1..n : rank[i] = p - 1]])

\* the gap test with half the gap: time_gap <= max_gap_minutes / 2
within_gap_half(a, b) ==
    2 * (b.timestamp - a.timestamp) <= max_gap_minutes * MsPerMinute

\* the gap test with a strict comparison: time_gap < max_gap_minutes
within_gap_strict(a, b) ==
    b.timestamp - a.timestamp < max_gap_minutes * MsPerMinute

\* time_gap <= max_gap_minutes, time_gap = (b - a) / (60 * 1000)
within_gap(a, b) == b.timestamp - a.timestamp <= max_gap_minutes * MsPerMinute

\* the grouping loop of _cluster_spikes: a spike opens a new cluster exactly
\* when its gap to the spike before it exceeds max_gap_minutes, and a cluster
\* runs up to the spike before the next opening
group_sorted(sorted_spikes) ==
    LET n == Len(sorted_spikes)
        opens == SortedSeqOf({1} \cup
                    {k \in 2..n : ~within_gap(sorted_spikes[k - 1], sorted_spikes[k])})
        last(c) == IF c = Len(opens) THEN n ELSE opens[c + 1] - 1
    IN  AsSeq([c \in 1..Len(opens) |-> SubSeq(sorted_spikes, opens[c], last(c))])

\* the clusters of a list of at least two spikes
group_spikes(spikes) == group_sorted(sorted_by_timestamp(spikes))

\* the lower of the two middle timestamps in place of their average
median_timestamp_lower(timestamps) == timestamps[(Len(timestamps) + 1) \div 2]

\* int(np.median(timestamps)) of timestamps in increasing order
median_timestamp(timestamps) ==
    LET n == Len(timestamps)
    IN  IF n % 2 = 1 THEN timestamps[(n + 1) \div 2]
        ELSE (timestamps[n \div 2] + timestamps[n \div 2 + 1]) \div 2

\* significant bits of a floating-point number in the model (a double has 53)
MantissaBits == 8

RECURSIVE RoundPositive(_, _)
\* the float nearest to the rational n / d > 0, ties to the even mantissa,
\* as a fraction
RoundPositive(n, d) ==
    IF n >= Pow2(MantissaBits) * d
    THEN LET r == RoundPositive(n, 2 * d)
         IN  IF r.den > 1 THEN [num |-> r.num, den |-> r.den \div 2]
             ELSE [num |-> 2 * r.num, den |-> 1]
    ELSE IF n < Pow2(MantissaBits - 1) * d
    THEN LET r == RoundPositive(2 * n, d)
         IN  [num |-> r.num, den |-> 2 * r.den]
    ELSE LET q == n \div d
             twice == 2 * (n % d)
             up == twice > d \/ (twice = d /\ q % 2 = 1)
         IN  [num |-> IF up THEN q + 1 ELSE q, den |-> 1]

\* the result of a floating-point operation whose exact value is n / d, d > 0
float_round(n, d) ==
    IF n = 0 THEN [num |-> 0, den |-> 1]
    ELSE IF n > 0 THEN RoundPositive(n, d)
    ELSE [num |-> -RoundPositive(-n, d).num, den |-> RoundPositive(-n, d).den]

\* a + b in floating point
float_add(a, b) == float_round(a.num * b.den + b.num * a.den, a.den * b.den)

RECURSIVE FloatSumTo(_, _)
FloatSumTo(xs, n) ==
    IF n = 0 THEN [num |-> 0, den |-> 1]
    ELSE float_add(FloatSumTo(xs, n - 1), [num |-> xs[n], den |-> 1])

\* sum(magnitudes): the floats are added from left to right
float_sum(xs) == FloatSumTo(xs, Len(xs))

\* float(total / n)
float_div(total, n) == float_round(total.num, total.den * n)

\* merging that counts a sample index once however many channels detected it
merge_spike_cluster_distinct(cluster) ==
    IF Len(cluster) = 1 THEN format_spike_event(cluster[1])
    ELSE LET magnitudes == AsSeq([k \in 1..Len(cluster) |-> cluster[k].magnitude])
             timestamps == AsSeq([k \in 1..Len(cluster) |-> cluster[k].timestamp])
         IN  [timestamp |-> median_timestamp(timestamps),
              magnitude |-> float_div(float_sum(magnitudes), Len(cluster)),
              peak_magnitude |-> MaxSeq(magnitudes),
              duration_minutes |->
                  Max2(1, (MaxSeq(timestamps) - MinSeq(timestamps))
                              \div MsPerMinute),
              spike_count |->
                  Cardinality({cluster[k].index : k \in 1..Len(cluster)})]

\* _merge_spike_cluster; the members of a cluster are in timestamp order and
\* their timestamps are multiples of 60000, so the duration is a whole number
merge_spike_cluster(cluster) ==
    IF Len(cluster) = 1 THEN format_spike_event(cluster[1])
    ELSE LET magnitudes == AsSeq([k \in 1..Len(cluster) |-> cluster[k].magnitude])
             timestamps == AsSeq([k \in 1..Len(cluster) |-> cluster[k].timestamp])
             peak_magnitude == MaxSeq(magnitudes)
             total_magnitude == float_sum(magnitudes)
             duration_minutes ==
                 (MaxSeq(timestamps) - MinSeq(timestamps)) \div MsPerMinute
         IN  [timestamp |-> median_timestamp(timestamps),
              magnitude |-> float_div(total_magnitude, Len(cluster)),
              peak_magnitude |-> peak_magnitude,
              duration_minutes |-> Max2(1, duration_minutes),
              spike_count |-> Len(cluster)]

\* _cluster_spikes
cluster_spikes(spikes) ==
    IF Len(spikes) < 2
    THEN AsSeq([k \in 1..Len(spikes) |-> format_spike_event(spikes[k])])
    ELSE LET clusters == group_spikes(spikes)
         IN  AsSeq([k \in 1..Len(clusters) |-> merge_spike_cluster(clusters[k])])

\* dist_type with the lower threshold taken strictly: regular up to cv = 0.5
distribution_type_closed(m, sum, sq) ==
    IF sum <= 0 THEN "bursty"
    ELSE IF 4 * (m * sq - sum * sum) <= sum * sum THEN "regular"
    ELSE IF 4 * (m * sq - sum * sum) <= 9 * sum * sum THEN "exponential"
    ELSE "bursty"

\* dist_type from cv = std / mean of the intervals, decided exactly:
\* cv^2 = (m*sq - sum^2) / sum^2 for m intervals
distribution_type(m, sum, sq) ==
    IF sum <= 0 THEN "bursty"
    ELSE IF 4 * (m * sq - sum * sum) < sum * sum THEN "regular"
    ELSE IF 4 * (m * sq - sum * sum) <= 9 * sum * sum THEN "exponential"
    ELSE "bursty"

\* values np.random.exponential is taken to return in the model
DrawValues == {0, 1, 7}

\* np.random.exponential(mean_interval, len(intervals)): the vectors of m
\* non-negative numbers the generator may return
exponential_draws(m) ==
    {AsSeq([i \in 1..m |-> v]) : v \in DrawValues}
    \cup {AsSeq([i \in 1..m |-> i % 3])}

\* the draws _analyze_spike_distribution may make for a list of events: none
\* below two events
drawn_intervals(events) ==
    IF Len(events) < 2 THEN {<<>>} ELSE exponential_draws(Len(events) - 1)

\* _analyze_spike_distribution with a type that depends on how the intervals
\* compare with the drawn sample
analyze_spike_distribution_fitted(events, expected_intervals) ==
    IF Len(events) < 2
    THEN [type |-> "insufficient-data", count |-> Len(events)]
    ELSE [type |-> IF SumSeq(expected_intervals) > 0 THEN "exponential"
                   ELSE "bursty",
          count |-> Len(events),
          total_events |-> Len(events)]

\* _analyze_spike_distribution; intervals are counted in half minutes, and
\* lambda and mean_interval_minutes are fractions num/den; expected_intervals
\* is the random sample the code draws and never reads
analyze_spike_distribution(events, expected_intervals) ==
    IF Len(events) < 2
    THEN [type |-> "insufficient-data", count |-> Len(events)]
    ELSE LET ts == sorted_by_timestamp(events)
             m == Len(events) - 1
             halves == AsSeq([i \in 1..m |->
                         (ts[i + 1].timestamp - ts[i].timestamp)
                             \div (MsPerMinute \div 2)])
             sum == SumSeq(halves)
             sq == SumSeq(AsSeq([i \in 1..m |-> halves[i] * halves[i]]))
         IN  [type |-> distribution_type(m, sum, sq),
              lambda |-> IF sum > 0 THEN [num |-> 2 * m, den |-> sum]
                         ELSE [num |-> 1, den |-> 1],
              mean_interval_minutes |-> [num |-> sum, den |-> 2 * m],
              count |-> Len(events),
              total_events |-> Len(events)]

\* _empty_spike_result
empty_spike_result ==
    [threshold |-> 0,
     events |-> <<>>,
     distribution |-> [type |-> "none", count |-> 0]]

\* the raw detections of detect: spikes_direct + spikes_wavelet
\* (detail_coeffs holds values * FP)
all_spikes_of(signal, detail_coeffs) ==
    LET spikes_direct == detect_direct_spikes(signal)
        high_freq_signal ==
            combine_detail_coefficients(detail_coeffs, Len(signal))
        spikes_wavelet ==
            IF Len(detail_coeffs) > 0 /\ Len(high_freq_signal) > 0
            THEN detect_wavelet_spikes(high_freq_signal, signal)
            ELSE <<>>
    IN  spikes_direct \o spikes_wavelet

\* the result of detect from its raw detections
spike_result(signal, raw, expected_intervals) ==
    LET clustered_spikes == cluster_spikes(raw)
    IN  [threshold |-> threshold_of(signal_sums(signal)),
         events |-> clustered_spikes,
         distribution |->
            analyze_spike_distribution(clustered_spikes, expected_intervals)]

\* the events detect clusters before it fits the distribution
detected_events(signal, detail_coeffs) ==
    IF Len(signal) < min_detect_length THEN <<>>
    ELSE cluster_spikes(all_spikes_of(signal, detail_coeffs))

\* detect without the early return for short signals
detect_unguarded(signal, detail_coeffs, expected_intervals) ==
    spike_result(signal, all_spikes_of(signal, detail_coeffs), expected_intervals)

\* SpikeDetector.detect
detect(signal, detail_coeffs, expected_intervals) ==
    IF Len(signal) < min_detect_length THEN empty_spike_result
    ELSE spike_result(signal, all_spikes_of(signal, detail_coeffs),
                      expected_intervals)

(***************************************************************************)
(* processors/fourier_analyzer.py                                          *)
(* Fractions are records [num, den] with den > 0.                          *)
(***************************************************************************)
Frac(n, d) == [num |-> n, den |-> d]

FracLess(a, b) == a.num * b.den < b.num * a.den

FracMax(a, b) == IF FracLess(a, b) THEN b ELSE a

\* number of dominant frequencies analyze asks for
count == 8

\* scipy _local_maxima_1d: the 0-based midpoints of the plateaus that are
\* strictly higher than both neighbours; the first and the last sample are
\* never peaks
local_maxima(x) ==
    LET n == Len(x)
        starts == {a \in 2..(n - 1) : x[a - 1] < x[a]}
        ends == {b \in 2..(n - 1) : x[b + 1] < x[b]}
        plateaus == {p \in starts \X ends :
                        /\ p[1] <= p[2]
                        /\ \A i \in p[1]..p[2] : x[i] = x[p[1]]}
    IN  {(p[1] + p[2] - 2) \div 2 : p \in plateaus}

\* position i comes before position j in np.argsort(key)[::-1] (equal keys:
\* the later position first)
before_desc(key, i, j) == key[i] > key[j] \/ (key[i] = key[j] /\ i > j)

\* the positions 1..Len(key) in np.argsort(key)[::-1] order
argsort_desc(key) ==
    LET n == Len(key)
        rank == AsSeq([i \in 1..n |->
                         Cardinality({j \in 1..n : before_desc(key, j, i)})])
    IN  AsSeq([p \in 1..n |-> CHOOSE i \in 1..n : rank[i] = p - 1])

RECURSIVE SelectByDistance(_, _, _, _, _)
\* scipy _select_by_peak_distance: the peaks are visited from the highest
\* priority down and a kept peak removes every peak closer than distance
SelectByDistance(peaks, order, k, keep, distance) ==
    IF k > Len(order) THEN keep
    ELSE LET j == order[k]
         IN  IF j \notin keep
             THEN SelectByDistance(peaks, order, k + 1, keep, distance)
             ELSE SelectByDistance(peaks, order, k + 1,
                    {i \in keep : i = j \/ Abs(peaks[i] - peaks[j]) >= distance},
                    distance)

\* scipy.signal.find_peaks(x, height=0.1 * max(x), distance=distance): the
\* 0-based peak indices in increasing order
find_peaks(x, distance) ==
    LET top == MaxSeq(x)
        peaks == SortedSeqOf({m \in local_maxima(x) : 10 * x[m + 1] >= top})
        prio == AsSeq([k \in 1..Len(peaks) |-> x[peaks[k] + 1]])
        kept == SelectByDistance(peaks, argsort_desc(prio), 1,
                                 1..Len(peaks), distance)
    IN  SortedSeqOf({peaks[k] : k \in kept})

\* the first n elements of a sequence (s[:n])
Take(s, n) == SubSeq(s, 1, Min2(n, Len(s)))

\* one coefficient of bin k of a length-padded_length FFT at the given step:
\* frequency = k / (padded_length * step), period_minutes = (1 / freq) / 60,
\* confidence = magnitude / max_magnitude (phase is not modelled)
coefficient(k, magnitude, max_magnitude, padded_length, step) ==
    [bin |-> k,
     frequency |-> Frac(k, padded_length * step),
     amplitude |-> magnitude,
     period_minutes |-> Frac(padded_length * step, 60 * k),
     confidence |-> IF max_magnitude > 0 THEN Frac(magnitude, max_magnitude)
                    ELSE Frac(0, 1)]

\* confidence < 0.05
low_confidence(c) == 20 * c.confidence.num < c.confidence.den

\* _find_dominant_frequencies that leaves the peaks in order of frequency
find_dominant_frequencies_by_position(magnitudes, padded_length, step, cnt) ==
    IF Len(magnitudes) < 2 THEN <<>>
    ELSE LET mags_filtered == Tail(magnitudes)
             found == find_peaks(mags_filtered,
                                 Max2(1, Len(mags_filtered) \div 50))
             peak_indices ==
                 IF Len(found) = 0
                 THEN Take(argsort_desc(mags_filtered), cnt)
                 ELSE AsSeq([k \in 1..Len(found) |-> found[k] + 1])
             top_indices == Take(peak_indices, cnt)
             max_magnitude == MaxSeq(mags_filtered)
             all == AsSeq([k \in 1..Len(top_indices) |->
                        coefficient(top_indices[k], mags_filtered[top_indices[k]],
                                    max_magnitude, padded_length, step)])
             Keep(c) == ~low_confidence(c)
         IN  SelectSeq(all, Keep)

\* _find_dominant_frequencies that returns every candidate, neither cut to
\* cnt nor filtered by confidence
find_dominant_frequencies_all(magnitudes, padded_length, step, cnt) ==
    IF Len(magnitudes) < 2 THEN <<>>
    ELSE LET mags_filtered == Tail(magnitudes)
             found == find_peaks(mags_filtered,
                                 Max2(1, Len(mags_filtered) \div 50))
             peak_indices ==
                 IF Len(found) = 0
                 THEN argsort_desc(mags_filtered)
                 ELSE AsSeq([k \in 1..Len(found) |-> found[k] + 1])
             peak_magnitudes ==
                 AsSeq([k \in 1..Len(peak_indices) |->
                          mags_filtered[peak_indices[k]]])
             sorted_peak_order == argsort_desc(peak_magnitudes)
             max_magnitude == MaxSeq(mags_filtered)
         IN  AsSeq([k \in 1..Len(peak_indices) |->
                      coefficient(peak_indices[sorted_peak_order[k]],
                                  mags_filtered[peak_indices[sorted_peak_order[k]]],
                                  max_magnitude, padded_length, step)])

\* _find_dominant_frequencies: magnitudes[k + 1] is the magnitude of bin k of
\* the positive half of the spectrum, bin 0 being the DC component
find_dominant_frequencies(magnitudes, padded_length, step, cnt) ==
    IF Len(magnitudes) < 2 THEN <<>>
    ELSE LET mags_filtered == Tail(magnitudes)
             found == find_peaks(mags_filtered,
                                 Max2(1, Len(mags_filtered) \div 50))
             peak_indices ==
                 IF Len(found) = 0
                 THEN Take(argsort_desc(mags_filtered), cnt)
                 ELSE AsSeq([k \in 1..Len(found) |-> found[k] + 1])
             peak_magnitudes ==
                 AsSeq([k \in 1..Len(peak_indices) |->
                          mags_filtered[peak_indices[k]]])
             sorted_peak_order == argsort_desc(peak_magnitudes)
             top_indices ==
                 Take(AsSeq([k \in 1..Len(peak_indices) |->
                               peak_indices[sorted_peak_order[k]]]), cnt)
             max_magnitude == MaxSeq(mags_filtered)
             all == AsSeq([k \in 1..Len(top_indices) |->
                        coefficient(top_indices[k], mags_filtered[top_indices[k]],
                                    max_magnitude, padded_length, step)])
             Keep(c) == ~low_confidence(c)
         IN  SelectSeq(all, Keep)

\* length of the padded signal the FFT runs on
fft_length(signal) == next_power(Len(signal))

\* analyze without the constant-signal branch
analyze_always_fft(signal, step, magnitudes) ==
    LET st == mean_std(signal)
    IN  [type |-> "fourier", mean |-> st.mean, std |-> std_of(st),
         coefficients |->
             find_dominant_frequencies(magnitudes, fft_length(signal),
                                       step, count)]

\* FourierAnalyzer.analyze for len(signal) >= 4 with sample_rate = 1 / step;
\* magnitudes is np.abs of the positive half of scipy.fft.fft of the centred,
\* padded and Hann-windowed signal
analyze(signal, step, magnitudes) ==
    LET st == mean_std(signal)
    IN  IF st.sq = 0
        THEN [type |-> "fourier", mean |-> st.mean, std |-> 0,
              coefficients |-> <<>>]
        ELSE [type |-> "fourier", mean |-> st.mean, std |-> std_of(st),
              coefficients |->
                  find_dominant_frequencies(magnitudes, fft_length(signal),
                                            step, count)]

(***************************************************************************)
(* models/traffic_modeler.py                                               *)
(***************************************************************************)
\* period_hours = period_minutes / 60 lies in [lo, hi]
period_hours_in(c, lo, hi) ==
    /\ lo * 60 * c.period_minutes.den <= c.period_minutes.num
    /\ c.period_minutes.num <= hi * 60 * c.period_minutes.den

\* period_hours >= lo
period_hours_at_least(c, lo) ==
    lo * 60 * c.period_minutes.den <= c.period_minutes.num

\* the coefficient loop of _classify_pattern: which of the three confidences
\* the coefficient raises
band_of(c) ==
    IF period_hours_in(c, 20, 28) THEN "daily"
    ELSE IF period_hours_in(c, 144, 192) THEN "weekly"
    ELSE IF period_hours_at_least(c, 600) THEN "seasonal"
    ELSE "other"

RECURSIVE BandConfidence(_, _, _)
\* max of the confidences of the first n coefficients that fall in band
BandConfidence(coefficients, band, n) ==
    IF n = 0 THEN Frac(0, 1)
    ELSE LET rest == BandConfidence(coefficients, band, n - 1)
         IN  IF band_of(coefficients[n]) = band
             THEN FracMax(rest, coefficients[n].confidence)
             ELSE rest

\* Python floats of the spike rate: IEEE-754 binary64, every division
\* correctly rounded (round half to even).  A positive float is a 53-bit
\* mantissa m, kept as four 14-bit limbs (most significant first), and an
\* exponent e: its value is m * 2^e.  Zero has the mantissa 0.
LimbBase == 2 ^ 14

LimbIndex == 1..4

TopBit == 2 ^ 10

\* the limbs of an integer 0 <= n < 2^31
big_of(n) ==
    << 0, n \div (LimbBase * LimbBase), (n \div LimbBase) % LimbBase,
       n % LimbBase >>

\* a[i..] < b[i..] as numbers
suffix_less(a, b, i) ==
    LET differ == {j \in i..4 : a[j] # b[j]}
    IN  /\ differ # {}
        /\ LET first == CHOOSE j \in differ : \A k \in differ : j <= k
           IN  a[first] < b[first]

big_less(a, b) == suffix_less(a, b, 1)

big_double(a) ==
    AsSeq([i \in LimbIndex |->
        ((2 * a[i]) % LimbBase)
            + (IF i < 4 /\ 2 * a[i + 1] >= LimbBase THEN 1 ELSE 0)])

\* a - b for a >= b
big_sub(a, b) ==
    AsSeq([i \in LimbIndex |->
        LET borrow == IF suffix_less(a, b, i + 1) THEN 1 ELSE 0
        IN  (a[i] - b[i] - borrow + LimbBase) % LimbBase])

big_succ(a) ==
    AsSeq([i \in LimbIndex |->
        IF \A j \in (i + 1)..4 : a[j] = LimbBase - 1
        THEN (a[i] + 1) % LimbBase
        ELSE a[i]])

RECURSIVE big_normalize(_, _)
\* shift a non-zero mantissa left until its bit 52 is set
big_normalize(m, e) ==
    IF m[1] >= TopBit THEN [m |-> m, e |-> e]
    ELSE big_normalize(big_double(m), e - 1)

\* float(n) of an integer 0 <= n < 2^31 (exact)
double_of(n) ==
    IF n = 0 THEN [m |-> big_of(0), e |-> 0] ELSE big_normalize(big_of(n), 0)

double_is_zero(a) == a.m = big_of(0)

RECURSIVE long_div(_, _, _)
\* steps more quotient bits: qr is << quotient so far, remainder >>
long_div(steps, qr, d) ==
    IF steps = 0 THEN [q |-> qr[1], r |-> qr[2]]
    ELSE LET twice == big_double(qr[2])
         IN  IF big_less(twice, d)
             THEN long_div(steps - 1, << big_double(qr[1]), twice >>, d)
             ELSE long_div(steps - 1, << big_succ(big_double(qr[1])),
                                         big_sub(twice, d) >>, d)

\* a / b of floats a >= 0 and b > 0
double_div(a, b) ==
    IF double_is_zero(a) THEN a
    ELSE LET small == big_less(a.m, b.m)
             first == IF small THEN big_double(a.m) ELSE a.m
             e == a.e - b.e - 52 - (IF small THEN 1 ELSE 0)
             qr == long_div(52, << big_of(1), big_sub(first, b.m) >>, b.m)
             twice == big_double(qr.r)
             up == \/ big_less(b.m, twice)
                   \/ twice = b.m /\ qr.q[4] % 2 = 1
             q == IF up THEN big_succ(qr.q) ELSE qr.q
         IN  IF q[1] >= 2 * TopBit
             THEN [m |-> << TopBit, 0, 0, 0 >>, e |-> e + 1]
             ELSE [m |-> q, e |-> e]

\* a < b of floats a, b >= 0
double_less(a, b) ==
    IF double_is_zero(b) THEN FALSE
    ELSE IF double_is_zero(a) THEN TRUE
    ELSE a.e < b.e \/ (a.e = b.e /\ big_less(a.m, b.m))

\* spike_rate_per_day = n_events / (total_duration_hours / 24) if
\* total_duration_hours > 0 else 0, with total_duration_hours =
\* n_samples * step / 3600
spike_rate_per_day(n_events, n_samples, step) ==
    IF n_samples * step <= 0 THEN double_of(0)
    ELSE LET total_duration_hours ==
                 double_div(double_of(n_samples * step), double_of(3600))
         IN  double_div(double_of(n_events),
                        double_div(total_duration_hours, double_of(24)))

\* spike_frequency from the thresholds 10, 2 and 0.1 on spike_rate_per_day
spike_frequency_of(n_events, n_samples, step) ==
    LET rate == spike_rate_per_day(n_events, n_samples, step)
    IN  IF double_less(double_of(10), rate) THEN "frequent"
        ELSE IF double_less(double_of(2), rate) THEN "occasional"
        ELSE IF double_less(double_div(double_of(1), double_of(10)), rate)
             THEN "rare"
        ELSE "none"

\* cv < 0.3 with cv = baseline_std / baseline_mean if baseline_mean > 0
\* else infinity
cv_below_03(baseline_std, baseline_mean) ==
    baseline_mean > 0 /\ 10 * baseline_std < 3 * baseline_mean

\* _determine_pattern_type with the steady rule placed after the default
determine_pattern_type_no_steady(daily_conf, weekly_conf, seasonal_conf, spike_freq, baseline_std, baseline_mean) ==
    IF FracLess(Frac(6, 10), daily_conf)
    THEN IF spike_freq \in {"frequent", "occasional"}
         THEN <<"business-hours-heavy", daily_conf>>
         ELSE <<"business-hours-normal", daily_conf>>
    ELSE IF FracLess(Frac(5, 10), weekly_conf)
    THEN <<"weekly-batch", weekly_conf>>
    ELSE IF spike_freq = "frequent"
    THEN <<"bursty", Frac(8, 10)>>
    ELSE IF FracLess(Frac(4, 10), seasonal_conf)
    THEN <<"seasonal", seasonal_conf>>
    ELSE LET max_conf == FracMax(FracMax(daily_conf, weekly_conf), seasonal_conf)
         IN  <<"mixed", FracMax(Frac(3, 10), max_conf)>>

\* _determine_pattern_type with the weekly rule tried before the daily rules
determine_pattern_type_weekly_first(daily_conf, weekly_conf, seasonal_conf, spike_freq, baseline_std, baseline_mean) ==
    IF FracLess(Frac(5, 10), weekly_conf)
    THEN <<"weekly-batch", weekly_conf>>
    ELSE IF FracLess(Frac(6, 10), daily_conf)
    THEN IF spike_freq \in {"frequent", "occasional"}
         THEN <<"business-hours-heavy", daily_conf>>
         ELSE <<"business-hours-normal", daily_conf>>
    ELSE IF spike_freq = "frequent"
    THEN <<"bursty", Frac(8, 10)>>
    ELSE IF spike_freq = "none" /\ cv_below_03(baseline_std, baseline_mean)
    THEN <<"steady", Frac(9, 10)>>
    ELSE IF FracLess(Frac(4, 10), seasonal_conf)
    THEN <<"seasonal", seasonal_conf>>
    ELSE LET max_conf == FracMax(FracMax(daily_conf, weekly_conf), seasonal_conf)
         IN  <<"mixed", FracMax(Frac(3, 10), max_conf)>>

\* _determine_pattern_type whose 'mixed' verdict carries the largest band
\* confidence as it is, without the floor of 0.3
determine_pattern_type_unfloored(daily_conf, weekly_conf, seasonal_conf, spike_freq, baseline_std, baseline_mean) ==
    IF FracLess(Frac(6, 10), daily_conf)
    THEN IF spike_freq \in {"frequent", "occasional"}
         THEN <<"business-hours-heavy", daily_conf>>
         ELSE <<"business-hours-normal", daily_conf>>
    ELSE IF FracLess(Frac(5, 10), weekly_conf)
    THEN <<"weekly-batch", weekly_conf>>
    ELSE IF spike_freq = "frequent"
    THEN <<"bursty", Frac(8, 10)>>
    ELSE IF spike_freq = "none" /\ cv_below_03(baseline_std, baseline_mean)
    THEN <<"steady", Frac(9, 10)>>
    ELSE IF FracLess(Frac(4, 10), seasonal_conf)
    THEN <<"seasonal", seasonal_conf>>
    ELSE <<"mixed", FracMax(FracMax(daily_conf, weekly_conf), seasonal_conf)>>

\* _determine_pattern_type: <<pattern_type, confidence>>
determine_pattern_type(daily_conf, weekly_conf, seasonal_conf, spike_freq, baseline_std, baseline_mean) ==
    IF FracLess(Frac(6, 10), daily_conf)
    THEN IF spike_freq \in {"frequent", "occasional"}
         THEN <<"business-hours-heavy", daily_conf>>
         ELSE <<"business-hours-normal", daily_conf>>
    ELSE IF FracLess(Frac(5, 10), weekly_conf)
    THEN <<"weekly-batch", weekly_conf>>
    ELSE IF spike_freq = "frequent"
    THEN <<"bursty", Frac(8, 10)>>
    ELSE IF spike_freq = "none" /\ cv_below_03(baseline_std, baseline_mean)
    THEN <<"steady", Frac(9, 10)>>
    ELSE IF FracLess(Frac(4, 10), seasonal_conf)
    THEN <<"seasonal", seasonal_conf>>
    ELSE LET max_conf == FracMax(FracMax(daily_conf, weekly_conf), seasonal_conf)
         IN  <<"mixed", FracMax(Frac(3, 10), max_conf)>>

\* _classify_pattern
classify_pattern(baseline, spikes, n_timestamps, step) ==
    LET cs == baseline.coefficients
        daily_confidence == BandConfidence(cs, "daily", Len(cs))
        weekly_confidence == BandConfidence(cs, "weekly", Len(cs))
        seasonal_confidence == BandConfidence(cs, "seasonal", Len(cs))
        spike_frequency ==
            spike_frequency_of(Len(spikes.events), n_timestamps, step)
        verdict == determine_pattern_type(
                       daily_confidence, weekly_confidence, seasonal_confidence,
                       spike_frequency, baseline.std, baseline.mean)
    IN  [type |-> verdict[1],
         confidence |-> verdict[2],
         daily |-> FracLess(Frac(3, 10), daily_confidence),
         weekly |-> FracLess(Frac(3, 10), weekly_confidence),
         seasonal |-> FracLess(Frac(3, 10), seasonal_confidence),
         spike_frequency |-> spike_frequency]

\* the k-th smallest element (k from 1) of a non-empty vector
order_statistic(x, k) ==
    CHOOSE v \in {x[i] : i \in 1..Len(x)} :
        /\ Cardinality({i \in 1..Len(x) : x[i] < v}) < k
        /\ Cardinality({i \in 1..Len(x) : x[i] <= v}) >= k

\* np.percentile(x, q) * FP, linear interpolation between order statistics
percentile(x, q) ==
    LET pos == (Len(x) - 1) * q
        lo == pos \div 100
        frac == pos % 100
        a == order_statistic(x, lo + 1)
    IN  IF frac = 0 THEN a * FP
        ELSE a * FP + ((order_statistic(x, lo + 2) - a) * frac * FP) \div 100

\* a sample is a record: a number, or NaN (whose value field is not used)
Number(v) == [nan |-> FALSE, value |-> v]

NaN == [nan |-> TRUE, value |-> 0]

\* np.array(values) of a list of numbers
Samples(vals) == AsSeq([i \in 1..Len(vals) |-> Number(vals[i])])

\* the value fields of all samples, NaN included
values_unfiltered(values) ==
    AsSeq([i \in 1..Len(values) |-> values[i].value])

\* values[~np.isnan(values)]
values_clean(values) ==
    LET NotNaN(x) == ~x.nan
    IN  values_unfiltered(SelectSeq(values, NotNaN))

\* _calculate_statistics; every field is value * FP
calculate_statistics(values) ==
    LET vals == values_clean(values)
    IN
    IF Len(vals) = 0
    THEN [mean |-> 0, std |-> 0, variance |-> 0, p50 |-> 0, p95 |-> 0,
          p99 |-> 0, min |-> 0, max |-> 0]
    ELSE LET st == mean_std(AsSeq([i \in 1..Len(vals) |-> vals[i] * FP]))
         IN  [mean |-> st.mean,
              std |-> std_of(st),
              variance |-> (std_of(st) * std_of(st)) \div FP,
              p50 |-> percentile(vals, 50),
              p95 |-> percentile(vals, 95),
              p99 |-> percentile(vals, 99),
              min |-> MinSeq(vals) * FP,
              max |-> MaxSeq(vals) * FP]

\* the model dictionary assembled by TrafficModeler.model (metadata keeps the
\* fields that depend on the input: samples and step)
assemble(traffic_data, decomposed, baseline, spikes, pattern, statistics) ==
    [version |-> "1.0.0",
     metadata |-> [source |-> "prometheus",
                   samples |-> Len(traffic_data.values),
                   step |-> traffic_data.step],
     baseline |-> baseline,
     spikes |-> spikes,
     pattern |-> pattern,
     statistics |-> statistics,
     decomposition |-> [levels |-> decomposed.levels,
                        smoothness_ratio |-> decomposed.smoothness_ratio,
                        energy_distribution |-> decomposed.energy_distribution]]

\* model.get(field, default) / field in model
Has(d, field) == field \in DOMAIN d

Get(d, field, default) == IF Has(d, field) THEN d[field] ELSE default

\* required_fields of validate_model
required_fields ==
    <<"version", "metadata", "baseline", "spikes", "pattern", "statistics">>

\* validate_model: the list of warnings, each named by its message
validate_model(model) ==
    LET missing == SelectSeq(required_fields, LAMBDA f : ~Has(model, f))
        w_missing == AsSeq([k \in 1..Len(missing) |->
                              <<"Missing required field", missing[k]>>])
        w_mean ==
            IF Has(model, "baseline") /\ Get(model.baseline, "mean", 0) < 0
            THEN <<<<"Negative baseline mean detected">>>> ELSE <<>>
        w_coeffs ==
            IF Has(model, "baseline")
               /\ Len(Get(model.baseline, "coefficients", <<>>)) = 0
            THEN <<<<"No periodic components found">>>> ELSE <<>>
        w_conf ==
            IF Has(model, "pattern")
               /\ FracLess(Get(model.pattern, "confidence", Frac(0, 1)),
                           Frac(3, 10))
            THEN <<<<"Low pattern confidence">>>> ELSE <<>>
        w_samples ==
            IF Has(model, "metadata") /\ Get(model.metadata, "samples", 0) < 100
            THEN <<<<"Low sample count">>>> ELSE <<>>
    IN  w_missing \o w_mean \o w_coeffs \o w_conf \o w_samples

(***************************************************************************)
(* Inputs                                                                  *)
(***************************************************************************)
\* lengths 0..MaxShort cover the short-input policies (N < 4, 4 <= N < 10)
MaxShort == 12

\* length of the longer constant and spiky inputs
LongLen == 40

\* length of the daily sinusoid: two cycles of 24 h at a 60 s step
DailyLen == 2880

\* level of the flat part of the spiky inputs
Base == 5

\* height of an injected spike
SpikeValue == 100

\* steps in seconds
Steps == {60, 3600}

\* values of the constant inputs
ConstantValues == {-2, 0, Base}

\* 0-based positions of the injected spikes in an input of length LongLen
SpikeSites == {5, 20, 25, LongLen - 1}

SpikeSets == {P \in SUBSET SpikeSites : Cardinality(P) <= 2}

ConstantSignal(n, c) == AsSeq([i \in 1..n |-> c])

SpikySignal(n, P) ==
    AsSeq([i \in 1..n |-> IF (i - 1) \in P THEN SpikeValue ELSE Base])

\* round(5 * sin(pi * x / half)) for 0 <= x <= half (Bhaskara's approximation)
HalfWave(x, half) ==
    LET p == x * (half - x)
        num == 80 * p
        den == 5 * half * half - 4 * p
    IN  (2 * num + den) \div (2 * den)

\* 10 + 5 * sin(2 * pi * i / period), rounded to an integer
SineSample(i, period) ==
    LET half == period \div 2
        x == i % period
    IN  IF x < half THEN 10 + HalfWave(x, half)
        ELSE 10 - HalfWave(x - half, half)

DailySignal(n) == AsSeq([i \in 1..n |-> SineSample(i - 1, 1440)])

\* the traffic_data dictionaries the pipeline is run on (values, step and
\* metric name; timestamps has one entry per value)
Inputs ==
    {[values |-> ConstantSignal(n, c), step |-> st, metric |-> "constant"] :
        n \in (0..MaxShort) \cup {LongLen}, c \in ConstantValues, st \in Steps}
    \cup {[values |-> SpikySignal(LongLen, P), step |-> st, metric |-> "spiky"] :
        P \in SpikeSets \ {{}}, st \in Steps}
    \cup {[values |-> SpikySignal(n, {2}), step |-> st, metric |-> "spiky"] :
        n \in 3..MaxShort, st \in Steps}
    \cup {[values |-> DailySignal(DailyLen), step |-> st, metric |-> "daily"] :
        st \in Steps}

\* magnitude spectra: a single peak at bin p with side lobes
PeakSpectrum(h, p) ==
    AsSeq([k \in 1..h |->
             IF k - 1 = p THEN 100
             ELSE IF Abs(k - 1 - p) = 1 THEN 50
             ELSE 2])

\* a spectrum that falls off from the lowest bin (no interior peak)
FallingSpectrum(h) == AsSeq([k \in 1..h |-> h - k + 1])

PeakBins == {1, 2, 3, 5, 25}

\* the spectra of a length-m FFT the model draws from (positive half)
Spectra(m) ==
    {PeakSpectrum(m \div 2, p) : p \in {q \in PeakBins : q < m \div 2}}
    \cup {FallingSpectrum(m \div 2)}

\* a field that has not been produced
None == [none |-> TRUE]

(***************************************************************************)
(* State                                                                   *)
(***************************************************************************)
VARIABLES
    pc,              \* position of the run
    traffic_data,    \* the input of TrafficModeler.model
    wavedec_raises,  \* whether pywt.wavedec raised inside decompose
    decomposed,      \* result of SignalDecomposer.decompose
    baseline,        \* result of FourierAnalyzer.analyze
    spikes,          \* result of SpikeDetector.detect
    pattern,         \* result of _classify_pattern
    statistics,      \* result of _calculate_statistics
    model,           \* the model dictionary
    warnings,        \* result of validate_model
    all_spikes,      \* the raw detections handed to _cluster_spikes
    events,          \* result of _cluster_spikes
    distribution,    \* result of _analyze_spike_distribution
    call,            \* a single operation and its arguments
    result           \* what that operation returned

vars == <<pc, traffic_data, wavedec_raises, decomposed, baseline, spikes,
          pattern, statistics, model, warnings, all_spikes, events,
          distribution, call, result>>

cluster_vars == <<all_spikes, events, distribution>>

unit_vars == <<call, result>>

\* the sample values as fixed-point numbers (value * FP)
Scaled(vals) == AsSeq([i \in 1..Len(vals) |-> vals[i] * FP])

(***************************************************************************)
(* The pipeline: TrafficModeler.model followed by validate_model           *)
(***************************************************************************)
Init ==
    /\ pc = "start"
    /\ traffic_data \in Inputs
    /\ wavedec_raises = FALSE
    /\ decomposed = None
    /\ baseline = None
    /\ spikes = None
    /\ pattern = None
    /\ statistics = None
    /\ model = None
    /\ warnings = None
    /\ all_spikes = None
    /\ events = None
    /\ distribution = None
    /\ call = None
    /\ result = None

\* step 1: decomposer.decompose(values); a ValueError leaves model() through
\* its except clause, which re-raises
Decompose ==
    /\ pc = "start"
    /\ IF Len(traffic_data.values) < 4
       THEN /\ pc' = "raised"
            /\ UNCHANGED <<wavedec_raises, decomposed>>
       ELSE \E r \in BOOLEAN :
               /\ wavedec_raises' = r
               /\ decomposed' = decompose(Scaled(traffic_data.values), r)
               /\ pc' = "decomposed"
    /\ UNCHANGED <<traffic_data, baseline, spikes, pattern, statistics, model,
                   warnings, cluster_vars, unit_vars>>

\* step 2: fourier_analyzer.analyze(decomposed['approximation'], 1 / step)
Analyze ==
    /\ pc = "decomposed"
    /\ IF Len(decomposed.approximation) < 4
       THEN /\ pc' = "raised"
            /\ UNCHANGED baseline
       ELSE \E magnitudes \in Spectra(fft_length(decomposed.approximation)) :
               /\ baseline' = analyze(decomposed.approximation,
                                      traffic_data.step, magnitudes)
               /\ pc' = "analyzed"
    /\ UNCHANGED <<traffic_data, wavedec_raises, decomposed, spikes, pattern,
                   statistics, model, warnings, cluster_vars, unit_vars>>

\* step 3: spike_detector.detect(values, decomposed['details'])
Detect ==
    /\ pc = "analyzed"
    /\ \E expected_intervals \in
            drawn_intervals(detected_events(traffic_data.values,
                                            decomposed.details)) :
          spikes' = detect(traffic_data.values, decomposed.details,
                           expected_intervals)
    /\ pc' = "detected"
    /\ UNCHANGED <<traffic_data, wavedec_raises, decomposed, baseline, pattern,
                   statistics, model, warnings, cluster_vars, unit_vars>>

\* step 4: _classify_pattern(baseline, spikes, timestamps, step)
Classify ==
    /\ pc = "detected"
    /\ pattern' = classify_pattern(baseline, spikes, Len(traffic_data.values),
                                   traffic_data.step)
    /\ pc' = "classified"
    /\ UNCHANGED <<traffic_data, wavedec_raises, decomposed, baseline, spikes,
                   statistics, model, warnings, cluster_vars, unit_vars>>

\* steps 5 and 6: _calculate_statistics(values) and the assembly of the model
Assemble ==
    /\ pc = "classified"
    /\ statistics' = calculate_statistics(Samples(traffic_data.values))
    /\ model' = assemble(traffic_data, decomposed, baseline, spikes, pattern,
                         statistics')
    /\ pc' = "done"
    /\ UNCHANGED <<traffic_data, wavedec_raises, decomposed, baseline, spikes,
                   pattern, warnings, cluster_vars, unit_vars>>

\* modeler.validate_model(model)
Validate ==
    /\ pc = "done"
    /\ warnings' = validate_model(model)
    /\ pc' = "validated"
    /\ UNCHANGED <<traffic_data, wavedec_raises, decomposed, baseline, spikes,
                   pattern, statistics, model, cluster_vars, unit_vars>>

Next ==
    \/ Decompose
    \/ Analyze
    \/ Detect
    \/ Classify
    \/ Assemble
    \/ Validate

Spec == Init /\ [][Next]_vars

(***************************************************************************)
(* The clustering stage of detect on arbitrary raw detections              *)
(***************************************************************************)
\* number of distinct sample indices that carry a detection
MaxSites == 4

\* distances in samples (minutes) between neighbouring detected indices
Gaps == {1, 5, max_gap_minutes, max_gap_minutes + 1}

\* which channel detected an index
Channels == {"direct", "wavelet", "both"}

\* how the sample values vary along the signal
Shapes == {"flat", "rising"}

\* the value of sample i
ShapeValue(shape, i) == IF shape = "flat" THEN 178 ELSE 128 + i

RECURSIVE SiteIndex(_, _)
\* the k-th detected index: the first is 0, the next ones follow the gaps
SiteIndex(gaps, k) ==
    IF k = 1 THEN 0 ELSE SiteIndex(gaps, k - 1) + gaps[k - 1]

\* spikes_direct + spikes_wavelet for the detected indices and channels
RawList(gaps, channels, shape) ==
    LET k == Len(channels)
        last == IF k = 0 THEN 0 ELSE SiteIndex(gaps, k)
        signal == AsSeq([i \in 1..(last + 1) |-> ShapeValue(shape, i - 1)])
        Direct(n) == channels[n] \in {"direct", "both"}
        Wavelet(n) == channels[n] \in {"wavelet", "both"}
        sites == AsSeq([n \in 1..k |-> n])
        d == SelectSeq(sites, Direct)
        w == SelectSeq(sites, Wavelet)
    IN  AsSeq([n \in 1..Len(d) |->
                 raw_spike(SiteIndex(gaps, d[n]), signal, "direct")])
        \o AsSeq([n \in 1..Len(w) |->
                    raw_spike(SiteIndex(gaps, w[n]), signal, "wavelet")])

InitCluster ==
    /\ pc = "raw"
    /\ \E k \in 0..MaxSites :
          \E g \in [1..(k - 1) -> Gaps], c \in [1..k -> Channels],
             shape \in Shapes :
             all_spikes = RawList(AsSeq(g), AsSeq(c), shape)
    /\ events = None
    /\ distribution = None
    /\ traffic_data = None
    /\ wavedec_raises = FALSE
    /\ decomposed = None
    /\ baseline = None
    /\ spikes = None
    /\ pattern = None
    /\ statistics = None
    /\ model = None
    /\ warnings = None
    /\ call = None
    /\ result = None

pipeline_vars == <<traffic_data, wavedec_raises, decomposed, baseline, spikes,
                   pattern, statistics, model, warnings>>

\* clustered_spikes = self._cluster_spikes(all_spikes)
ClusterSpikes ==
    /\ pc = "raw"
    /\ events' = cluster_spikes(all_spikes)
    /\ pc' = "clustered"
    /\ UNCHANGED <<all_spikes, distribution, pipeline_vars, unit_vars>>

\* distribution = self._analyze_spike_distribution(clustered_spikes)
AnalyzeDistribution ==
    /\ pc = "clustered"
    /\ \E expected_intervals \in drawn_intervals(events) :
          distribution' = analyze_spike_distribution(events, expected_intervals)
    /\ pc' = "distributed"
    /\ UNCHANGED <<all_spikes, events, pipeline_vars, unit_vars>>

NextCluster ==
    \/ ClusterSpikes
    \/ AnalyzeDistribution

SpecCluster == InitCluster /\ [][NextCluster]_vars

(***************************************************************************)
(* validate_model on arbitrary model dictionaries                          *)
(***************************************************************************)
\* the top-level fields of the model dictionary built by model()
ModelFields ==
    {"version", "metadata", "baseline", "spikes", "pattern", "statistics",
     "decomposition"}

Baselines ==
    {[type |-> "fourier", mean |-> m, std |-> 0, coefficients |-> cs] :
        m \in {-1, 5},
        cs \in {<<>>, <<coefficient(2, 100, 100, 8, 60)>>}}

Patterns ==
    {[type |-> "mixed", confidence |-> c, daily |-> FALSE, weekly |-> FALSE,
      seasonal |-> FALSE, spike_frequency |-> "none"] :
        c \in {Frac(29, 100), Frac(3, 10)}}

Metadatas ==
    {[source |-> "prometheus", samples |-> n, step |-> 60] : n \in {99, 100}}

\* a model dictionary that holds exactly the fields of F
ModelWith(F, b, p, m) ==
    [f \in F |->
        CASE f = "version" -> "1.0.0"
          [] f = "metadata" -> m
          [] f = "baseline" -> b
          [] f = "spikes" -> empty_spike_result
          [] f = "pattern" -> p
          [] f = "statistics" -> calculate_statistics(<<>>)
          [] f = "decomposition" ->
                [levels |-> 0, smoothness_ratio |-> 10000,
                 energy_distribution |-> <<10000>>]]

Models ==
    {ModelWith(F, b, p, m) :
        F \in SUBSET ModelFields, b \in Baselines, p \in Patterns,
        m \in Metadatas}

InitValidate ==
    /\ pc = "done"
    /\ model \in Models
    /\ warnings = None
    /\ traffic_data = None
    /\ wavedec_raises = FALSE
    /\ decomposed = None
    /\ baseline = None
    /\ spikes = None
    /\ pattern = None
    /\ statistics = None
    /\ all_spikes = None
    /\ events = None
    /\ distribution = None
    /\ call = None
    /\ result = None

NextValidate == Validate

SpecValidate == InitValidate /\ [][NextValidate]_vars

(***************************************************************************)
(* Single operations applied to bounded sets of arguments                  *)
(***************************************************************************)
\* magnitudes a spectrum of the exhaustive family is built from; 2 is below
\* 5% and 10% of 50
SpectrumValues == {0, 2, 50}

\* lengths of the signals handed to analyze (powers of two)
SignalLengths == {8, 16}

\* every spectrum of h bins over SpectrumValues
ShortSpectra(h) == {AsSeq(f) : f \in [1..h -> SpectrumValues]}

\* number of bins of the long spectra
LongBins == 64

\* a spectrum with a peak at every third bin, the heights rising and falling
\* with the bin
CombSpectrum(h) ==
    AsSeq([k \in 1..h |->
             IF k % 3 = 0 THEN 40 + ((7 * k) % 31) ELSE 1])

\* a signal of n samples that is not constant
AlternatingSignal(n) == AsSeq([i \in 1..n |-> (i % 2) * FP])

AnalyzeCalls ==
    UNION {{[op |-> "analyze", signal |-> AlternatingSignal(n), step |-> 60,
             magnitudes |-> m] : m \in ShortSpectra(n \div 2)} :
              n \in SignalLengths}
    \cup {[op |-> "analyze", signal |-> AlternatingSignal(2 * LongBins),
           step |-> 60, magnitudes |-> m] :
             m \in {CombSpectrum(LongBins), FallingSpectrum(LongBins)}}
    \cup {[op |-> "analyze", signal |-> Scaled(ConstantSignal(n, Base)),
           step |-> 60, magnitudes |-> <<>>] : n \in SignalLengths}

\* longest vector of the exhaustive family handed to _calculate_statistics
MaxStat == 4

\* the samples those vectors are built from
StatSamples == {NaN, Number(-3), Number(0), Number(2), Number(7)}

\* a longer vector: a ramp in which every fifth sample is NaN
RampSamples(n) ==
    AsSeq([i \in 1..n |-> IF i % 5 = 0 THEN NaN ELSE Number((3 * i) % n)])

StatisticsCalls ==
    UNION {{[op |-> "calculate_statistics", values |-> AsSeq(f)] :
              f \in [1..n -> StatSamples]} : n \in 0..MaxStat}
    \cup {[op |-> "calculate_statistics", values |-> RampSamples(LongLen)]}

\* confidences around the thresholds 0.4, 0.5 and 0.6 of the cascade
Confidences == {Frac(0, 1), Frac(4, 10), Frac(5, 10), Frac(6, 10), Frac(7, 10)}

SpikeFrequencies == {"frequent", "occasional", "rare", "none"}

\* baseline std and mean: cv is 0, 0.2, 0.3 or 0.5 in absolute value, and the
\* mean is negative, zero or positive
BaselineStds == {0, 2, 3, 5}

BaselineMeans == {-10, 0, 10}

PatternCalls ==
    {[op |-> "determine_pattern_type", daily_conf |-> d, weekly_conf |-> w,
      seasonal_conf |-> se, spike_freq |-> f, baseline_std |-> sd,
      baseline_mean |-> mu] :
        d \in Confidences, w \in Confidences, se \in Confidences,
        f \in SpikeFrequencies, sd \in BaselineStds, mu \in BaselineMeans}

\* _classify_pattern on a flat baseline without periodic components:
\* event counts, sample counts and steps on both sides of each threshold
EventCounts == 0..12

SampleCounts == {0, 1, 24, 240, 432, 1440, 1584, 2880, 14400}

TimeSteps == {-60, 0, 60, 3600}

ClassifyCalls ==
    {[op |-> "classify_pattern",
      baseline |-> [coefficients |-> << >>, std |-> 0, mean |-> 10],
      spikes |-> [events |-> AsSeq([i \in 1..n |-> i])],
      n_timestamps |-> len, step |-> step] :
        n \in EventCounts, len \in SampleCounts, step \in TimeSteps}

\* _analyze_spike_distribution on event lists with given inter-arrival
\* intervals (minutes), handed over in increasing or decreasing time order
MaxIntervals == 5

IntervalValues == {0, 1, 3, 16}

EventsAt(intervals, reversed) ==
    LET n == Len(intervals) + 1
        at(k) == SumSeq(SubSeq(intervals, 1, k - 1)) * MsPerMinute
    IN  AsSeq([k \in 1..n |->
            format_spike_event(
                [timestamp |-> at(IF reversed THEN n + 1 - k ELSE k),
                 magnitude |-> 1])])

DistributionCalls ==
    {[op |-> "analyze_spike_distribution", events |-> << >>]}
    \cup UNION {{[op |-> "analyze_spike_distribution",
                  events |-> EventsAt(AsSeq(iv), reversed)] :
                    iv \in [1..m -> IntervalValues], reversed \in BOOLEAN} :
                m \in 0..MaxIntervals}

\* _combine_detail_coefficients on up to MaxBands detail bands (values * FP),
\* some of them empty, for two sample lengths
MaxBands == 3

BandVectors == {<< >>, << FP >>, << 0, 2 * FP >>, << FP, 0, -FP >>}

TargetLengths == {2, 3}

CombineCalls ==
    UNION {{[op |-> "combine_detail_coefficients",
             detail_coeffs |-> AsSeq(bands), target_length |-> len] :
               bands \in [1..n -> BandVectors], len \in TargetLengths} :
           n \in 0..MaxBands}

\* pad_to_power_of_two on every vector of 1 to MaxPadLength samples
MaxPadLength == 9

PadValues == {0, 7}

PadCalls ==
    UNION {{[op |-> "pad_to_power_of_two", signal |-> AsSeq(x)] :
               x \in [1..n -> PadValues]} :
           n \in 1..MaxPadLength}

\* smooth_signal on short vectors with windows below, at and above their length
MaxSmoothLength == 4

SmoothValues == {0, 6}

WindowSizes == -1..6

SmoothCalls ==
    UNION {{[op |-> "smooth_signal", signal |-> AsSeq(x), window_size |-> w] :
               x \in [1..n -> SmoothValues], w \in WindowSizes} :
           n \in 0..MaxSmoothLength}

\* get_high_frequency_component on the same lists of detail bands
HighFrequencyCalls ==
    UNION {{[op |-> "get_high_frequency_component", details |-> AsSeq(bands)] :
               bands \in [1..n -> BandVectors]} :
           n \in 0..MaxBands}

Calls ==
    AnalyzeCalls \cup StatisticsCalls \cup PatternCalls \cup ClassifyCalls
        \cup DistributionCalls \cup CombineCalls
        \cup PadCalls
        \cup SmoothCalls
        \cup HighFrequencyCalls

InitUnits ==
    /\ pc = "call"
    /\ call \in Calls
    /\ result = None
    /\ traffic_data = None
    /\ wavedec_raises = FALSE
    /\ decomposed = None
    /\ baseline = None
    /\ spikes = None
    /\ pattern = None
    /\ statistics = None
    /\ model = None
    /\ warnings = None
    /\ all_spikes = None
    /\ events = None
    /\ distribution = None

\* FourierAnalyzer.analyze(signal, 1 / step)
CallAnalyze ==
    /\ pc = "call"
    /\ call.op = "analyze"
    /\ result' = analyze(call.signal, call.step, call.magnitudes)
    /\ pc' = "returned"
    /\ UNCHANGED <<call, pipeline_vars, cluster_vars>>

\* TrafficModeler._calculate_statistics(values)
CallCalculateStatistics ==
    /\ pc = "call"
    /\ call.op = "calculate_statistics"
    /\ result' = calculate_statistics(call.values)
    /\ pc' = "returned"
    /\ UNCHANGED <<call, pipeline_vars, cluster_vars>>

\* TrafficModeler._determine_pattern_type
CallDeterminePatternType ==
    /\ pc = "call"
    /\ call.op = "determine_pattern_type"
    /\ result' = determine_pattern_type(call.daily_conf, call.weekly_conf,
                                        call.seasonal_conf, call.spike_freq,
                                        call.baseline_std, call.baseline_mean)
    /\ pc' = "returned"
    /\ UNCHANGED <<call, pipeline_vars, cluster_vars>>

\* TrafficModeler._classify_pattern
CallClassifyPattern ==
    /\ pc = "call"
    /\ call.op = "classify_pattern"
    /\ result' = classify_pattern(call.baseline, call.spikes,
                                  call.n_timestamps, call.step)
    /\ pc' = "returned"
    /\ UNCHANGED <<call, pipeline_vars, cluster_vars>>

\* SpikeDetector._analyze_spike_distribution
CallAnalyzeSpikeDistribution ==
    /\ pc = "call"
    /\ call.op = "analyze_spike_distribution"
    /\ \E expected_intervals \in drawn_intervals(call.events) :
          result' = analyze_spike_distribution(call.events, expected_intervals)
    /\ pc' = "returned"
    /\ UNCHANGED <<call, pipeline_vars, cluster_vars>>

\* SpikeDetector._combine_detail_coefficients
CallCombineDetailCoefficients ==
    /\ pc = "call"
    /\ call.op = "combine_detail_coefficients"
    /\ result' = combine_detail_coefficients(call.detail_coeffs,
                                             call.target_length)
    /\ pc' = "returned"
    /\ UNCHANGED <<call, pipeline_vars, cluster_vars>>

\* math_utils.pad_to_power_of_two
CallPadToPowerOfTwo ==
    /\ pc = "call"
    /\ call.op = "pad_to_power_of_two"
    /\ result' = pad_to_power_of_two(call.signal)
    /\ pc' = "returned"
    /\ UNCHANGED <<call, pipeline_vars, cluster_vars>>

\* math_utils.smooth_signal
CallSmoothSignal ==
    /\ pc = "call"
    /\ call.op = "smooth_signal"
    /\ result' = smooth_signal(call.signal, call.window_size)
    /\ pc' = "returned"
    /\ UNCHANGED <<call, pipeline_vars, cluster_vars>>

\* SignalDecomposer.get_high_frequency_component(details)
CallGetHighFrequencyComponent ==
    /\ pc = "call"
    /\ call.op = "get_high_frequency_component"
    /\ result' = get_high_frequency_component(call.details)
    /\ pc' = "returned"
    /\ UNCHANGED <<call, pipeline_vars, cluster_vars>>

NextUnits ==
    \/ CallAnalyze
    \/ CallDeterminePatternType
    \/ CallCalculateStatistics
    \/ CallClassifyPattern
    \/ CallAnalyzeSpikeDistribution
    \/ CallCombineDetailCoefficients
    \/ CallPadToPowerOfTwo
    \/ CallSmoothSignal
    \/ CallGetHighFrequencyComponent

SpecUnits == InitUnits /\ [][NextUnits]_vars

(***************************************************************************)
(* Properties                                                              *)
(***************************************************************************)
\* the end of the time extent an event reports, in milliseconds
ExtentEnd(event) == event.timestamp + event.duration_minutes * MsPerMinute

\* two extents that share at most an end point
Disjoint(a, b) ==
    ExtentEnd(a) <= b.timestamp \/ ExtentEnd(b) <= a.timestamp

Clustered == pc \in {"clustered", "distributed"}

\* C1: for every list of raw detections handed to the clustering step, any
\* two different returned events report time extents (timestamp to
\* timestamp + duration_minutes) that do not overlap.
C1_EventsPairwiseDisjoint ==
    Clustered =>
        \A i, j \in 1..Len(events) :
            i # j => Disjoint(events[i], events[j])

\* C2: every returned event has peak_magnitude >= magnitude,
\* duration_minutes >= 1 and spike_count >= 1.
C2_EventFieldsOrdered ==
    Clustered =>
        \A i \in 1..Len(events) :
            /\ events[i].peak_magnitude * events[i].magnitude.den
                   >= events[i].magnitude.num
            /\ events[i].duration_minutes >= 1
            /\ events[i].spike_count >= 1

\* positions of the pipeline run
Decomposed ==
    pc \in {"decomposed", "analyzed", "detected", "classified", "done",
            "validated"}

Detected == pc \in {"detected", "classified", "done", "validated"}

Classified == pc \in {"classified", "done", "validated"}

Modelled == pc \in {"done", "validated"}

IsConstant(v) == \A i \in 1..Len(v) : v[i] = v[1]

FracEq(a, b) == a.num * b.den = b.num * a.den

Verdict(type, confidence) ==
    pattern.type = type /\ FracEq(pattern.confidence, confidence)

\* 0-based indices of the samples above mean + threshold_sigma * std
AboveThreshold(v) ==
    {i \in 0..(Len(v) - 1) : exceeds_threshold(v[i + 1], signal_sums(v))}

\* the above-threshold samples with no other one within max_gap_minutes
IsolatedSpikes(v) ==
    {i \in AboveThreshold(v) :
        \A j \in AboveThreshold(v) \ {i} : Abs(i - j) > max_gap_minutes}

\* C3: when the pipeline calls detect (signal plus the detail bands of the
\* decomposition) on a signal whose above-threshold samples are all isolated,
\* each of them yields an event with spike_count = 1 and duration_minutes = 1,
\* and the number of events and distribution.count equal their number.
C3_IsolatedSpikeSingleEvent ==
    LET v == traffic_data.values
    IN  (/\ Detected
         /\ Len(v) >= min_detect_length
         /\ IsolatedSpikes(v) # {}
         /\ IsolatedSpikes(v) = AboveThreshold(v))
        => /\ Len(spikes.events) = Cardinality(IsolatedSpikes(v))
           /\ spikes.distribution.count = Cardinality(IsolatedSpikes(v))
           /\ \A i \in IsolatedSpikes(v) :
                 \E k \in 1..Len(spikes.events) :
                    /\ spikes.events[k].timestamp = i * MsPerMinute
                    /\ spikes.events[k].spike_count = 1
                    /\ spikes.events[k].duration_minutes = 1

ConstantInput(n_min) ==
    /\ Classified
    /\ Len(traffic_data.values) >= n_min
    /\ IsConstant(traffic_data.values)

ConstantOfLength4 ==
    /\ Classified
    /\ Len(traffic_data.values) = 4
    /\ IsConstant(traffic_data.values)

IsDailySinusoid ==
    /\ Len(traffic_data.values) = DailyLen
    /\ traffic_data.step = 60
    /\ traffic_data.values = DailySignal(DailyLen)

\* period_minutes within 5% of 1440
NearDailyPeriod(c) ==
    /\ 1368 * c.period_minutes.den <= c.period_minutes.num
    /\ c.period_minutes.num <= 1512 * c.period_minutes.den

\* C6: for a 24 h sinusoid sampled at step 60 s over two cycles the model
\* holds a Fourier coefficient whose period_minutes is within 5% of 1440, has
\* daily = true and the verdict 'business-hours-normal'.
C6_DailySinusoidRecognised ==
    (Modelled /\ IsDailySinusoid /\ ~wavedec_raises)
    => /\ \E k \in 1..Len(model.baseline.coefficients) :
             NearDailyPeriod(model.baseline.coefficients[k])
       /\ model.pattern.daily
       /\ model.pattern.type = "business-hours-normal"

\* C7: for N < 4 model() raises and returns no model; for 4 <= N < 10 spike
\* detection raises nothing and returns the empty result (events = [],
\* distribution type 'none' with count 0, threshold 0).
C7_ShortInputPolicy ==
    LET n == Len(traffic_data.values)
    IN  /\ n < 4 => (pc \in {"start", "raised"} /\ model = None)
        /\ (n >= 4 /\ n < 10) => pc # "raised"
        /\ (n >= 4 /\ n < 10 /\ Detected)
           => /\ spikes.events = <<>>
              /\ spikes.distribution = [type |-> "none", count |-> 0]
              /\ spikes.threshold = 0

\* C7 witness: spike detection has returned for a non-constant input of
\* length 4..9
C7_ShortInputDetected ==
    /\ Detected
    /\ Len(traffic_data.values) >= 4
    /\ Len(traffic_data.values) < 10
    /\ ~IsConstant(traffic_data.values)
    /\ spikes.events = <<>>

\* C8: when wavedec fails inside decompose, the result is the pass-through:
\* approximation equal to the vector the caller gave, details = [],
\* levels = 0, smoothness_ratio = 1 and energy_distribution = [100], for
\* every input of length >= 4.
C8_FallbackReturnsInput ==
    (Decomposed /\ wavedec_raises)
    => /\ decomposed.approximation = Scaled(traffic_data.values)
       /\ decomposed.details = <<>>
       /\ decomposed.levels = 0
       /\ decomposed.smoothness_ratio = 10000
       /\ decomposed.energy_distribution = <<10000>>

\* C9: for every input with N >= 4 the energy_distribution percentages sum
\* to 100 (here: 10000 hundredths of a percent, up to one unit of rounding
\* per entry).
C9_EnergySumsTo100 ==
    Decomposed
    => Abs(SumSeq(decomposed.energy_distribution) - 10000)
           <= Len(decomposed.energy_distribution)

\* the warning for an absent top-level field
MissingWarning(f) == <<"Missing required field", f>>

\* how many times a warning occurs in the returned list
Occurrences(w) == Cardinality({k \in 1..Len(warnings) : warnings[k] = w})

\* a warning occurs once when its condition holds and not at all otherwise
OnceIff(w, condition) == Occurrences(w) = IF condition THEN 1 ELSE 0

\* C10: validate_model returns one warning for each absent top-level field
\* of the output schema (version, metadata, baseline, spikes, pattern,
\* statistics, decomposition), for baseline.mean < 0, for an empty
\* coefficient list, for pattern.confidence < 0.3 and for
\* metadata.samples < 100, and nothing else.
C10_OneWarningPerDefect ==
    pc = "validated"
    => /\ \A f \in ModelFields : OnceIff(MissingWarning(f), ~Has(model, f))
       /\ OnceIff(<<"Negative baseline mean detected">>,
                  Has(model, "baseline") /\ model.baseline.mean < 0)
       /\ OnceIff(<<"No periodic components found">>,
                  Has(model, "baseline")
                  /\ model.baseline.coefficients = <<>>)
       /\ OnceIff(<<"Low pattern confidence">>,
                  Has(model, "pattern")
                  /\ FracLess(model.pattern.confidence, Frac(3, 10)))
       /\ OnceIff(<<"Low sample count">>,
                  Has(model, "metadata") /\ model.metadata.samples < 100)
       /\ \A k \in 1..Len(warnings) :
             warnings[k] \in
                 {MissingWarning(f) : f \in ModelFields}
                 \cup {<<"Negative baseline mean detected">>,
                       <<"No periodic components found">>,
                       <<"Low pattern confidence">>,
                       <<"Low sample count">>}

\* the results detect can return on the current input, one per random draw
DetectResults ==
    LET raw == all_spikes_of(traffic_data.values, decomposed.details)
    IN  IF Len(traffic_data.values) < min_detect_length
        THEN {empty_spike_result}
        ELSE {spike_result(traffic_data.values, raw, d) :
                d \in drawn_intervals(cluster_spikes(raw))}

\* C11: two runs on the same samples, step and configuration give the same
\* spike events and distribution and the same pattern verdict, whatever the
\* random exponential sample drawn while the distribution is fitted.
C11_RunsAgree ==
    pc = "analyzed" =>
        /\ Cardinality(DetectResults) = 1
        /\ Cardinality({classify_pattern(baseline, r,
                                         Len(traffic_data.values),
                                         traffic_data.step) :
                           r \in DetectResults}) = 1

\* a run that drew a random sample (two or more events) and was classified
C11_DrawnAndClassified ==
    /\ Classified
    /\ Len(spikes.events) >= 2
    /\ spikes.distribution.type \in {"regular", "exponential", "bursty"}
    /\ pattern.type \in {"bursty", "mixed", "steady", "business-hours-heavy"}

\* the operation op has returned
Returned(op) == pc = "returned" /\ call.op = op

\* C12: the coefficients analyze returns are in non-increasing order of
\* amplitude, with peaks found and with the top-magnitude fallback.
C12_AmplitudesNonIncreasing ==
    Returned("analyze") =>
        \A i \in 1..(Len(result.coefficients) - 1) :
            result.coefficients[i].amplitude
                >= result.coefficients[i + 1].amplitude

\* peaks were found and the higher one lies at the higher frequency
C12_PeaksReordered ==
    /\ Returned("analyze")
    /\ Len(call.magnitudes) > 1
    /\ Len(find_peaks(Tail(call.magnitudes), 1)) >= 2
    /\ Len(result.coefficients) >= 2
    /\ result.coefficients[1].bin > result.coefficients[2].bin
    /\ result.coefficients[1].amplitude > result.coefficients[2].amplitude

\* C13: analyze returns at most 8 coefficients and each has a confidence in
\* [0.05, 1].
C13_CountAndConfidenceBounded ==
    Returned("analyze") =>
        /\ Len(result.coefficients) <= 8
        /\ \A i \in 1..Len(result.coefficients) :
              LET c == result.coefficients[i].confidence
              IN  /\ c.den > 0
                  /\ 20 * c.num >= c.den
                  /\ c.num <= c.den

\* more than 8 peaks were found and 8 coefficients came back
C13_TruncatedToEight ==
    /\ Returned("analyze")
    /\ Len(call.magnitudes) > 1
    /\ Len(find_peaks(Tail(call.magnitudes), 1)) > 8
    /\ Len(result.coefficients) = 8

\* the numbers among the samples of a vector
NumbersOf(values) == {values[i].value : i \in {j \in 1..Len(values) : ~values[j].nan}}

\* C14: the statistics satisfy min <= p50 <= p95 <= p99 <= max; NaN samples
\* are ignored (min and max are the least and the greatest number among the
\* samples) and every field is 0 when no sample is a number.
C14_PercentilesOrdered ==
    Returned("calculate_statistics") =>
        /\ result.min <= result.p50
        /\ result.p50 <= result.p95
        /\ result.p95 <= result.p99
        /\ result.p99 <= result.max
        /\ NumbersOf(call.values) # {} =>
              /\ \E v \in NumbersOf(call.values) : result.min = v * FP
              /\ \E v \in NumbersOf(call.values) : result.max = v * FP
              /\ \A v \in NumbersOf(call.values) :
                    result.min <= v * FP /\ v * FP <= result.max
        /\ NumbersOf(call.values) = {} =>
              \A f \in DOMAIN result : result[f] = 0

\* a vector with a NaN among distinct numbers, and strictly increasing
\* statistics
C14_NaNAmongNumbers ==
    /\ Returned("calculate_statistics")
    /\ \E i \in 1..Len(call.values) : call.values[i].nan
    /\ result.min < result.p50
    /\ result.p50 < result.p95
    /\ result.p95 < result.p99
    /\ result.p99 < result.max

\* result is the pair <<type, confidence>>
Gives(type, confidence) == result[1] = type /\ FracEq(result[2], confidence)

\* the rule cascade of the classifier, first match wins, for a given reading
\* of "cv < 0.3"
Cascade(low_cv) ==
    LET daily == FracLess(Frac(6, 10), call.daily_conf)
        weekly == FracLess(Frac(5, 10), call.weekly_conf)
        seasonal == FracLess(Frac(4, 10), call.seasonal_conf)
        busy == call.spike_freq \in {"frequent", "occasional"}
        frequent == call.spike_freq = "frequent"
        steady == call.spike_freq = "none" /\ low_cv
        max_conf == FracMax(FracMax(call.daily_conf, call.weekly_conf),
                            call.seasonal_conf)
    IN  /\ daily /\ busy => Gives("business-hours-heavy", call.daily_conf)
        /\ daily /\ ~busy => Gives("business-hours-normal", call.daily_conf)
        /\ ~daily /\ weekly => Gives("weekly-batch", call.weekly_conf)
        /\ ~daily /\ ~weekly /\ frequent => Gives("bursty", Frac(8, 10))
        /\ ~daily /\ ~weekly /\ ~frequent /\ steady
              => Gives("steady", Frac(9, 10))
        /\ ~daily /\ ~weekly /\ ~frequent /\ ~steady /\ seasonal
              => Gives("seasonal", call.seasonal_conf)
        /\ ~daily /\ ~weekly /\ ~frequent /\ ~steady /\ ~seasonal
              => Gives("mixed", FracMax(Frac(3, 10), max_conf))

\* C15: _determine_pattern_type is the stated cascade with cv = std / mean for
\* every non-zero mean, a negative one included, and infinity only when the
\* mean is 0.
C15_CascadeAnyNonZeroMean ==
    Returned("determine_pattern_type") =>
        Cascade(\/ call.baseline_mean > 0
                   /\ 10 * call.baseline_std < 3 * call.baseline_mean
                \/ call.baseline_mean < 0
                   /\ 10 * call.baseline_std > 3 * call.baseline_mean)

\* C15 as the code has it: the stated cascade with cv = std / mean when the
\* mean is positive and infinity when the mean is zero or negative.
C15_CascadePositiveMean ==
    Returned("determine_pattern_type") =>
        Cascade(/\ call.baseline_mean > 0
                /\ 10 * call.baseline_std < 3 * call.baseline_mean)

\* a negative mean with no spikes and no periodic evidence reaches the default
C15_NegativeMeanNotSteady ==
    /\ Returned("determine_pattern_type")
    /\ call.baseline_mean < 0
    /\ call.spike_freq = "none"
    /\ call.baseline_std = 0
    /\ Gives("mixed", Frac(3, 10))

\* the class of the exact rate r = n_events / (n_samples * step / 3600 / 24),
\* r = 0 when the duration is not positive: r > 10, r > 2, r > 0.1, else
rate_class(n_events, n_samples, step) ==
    LET seconds == n_samples * step
        ev == n_events * 86400
    IN  IF seconds <= 0 THEN "none"
        ELSE IF ev > 10 * seconds THEN "frequent"
        ELSE IF ev > 2 * seconds THEN "occasional"
        ELSE IF 10 * ev > seconds THEN "rare"
        ELSE "none"

\* C16: for every N, step and event count the spike frequency is the class
\* of the rate r = |events| / (N*step/3600/24): 'frequent' for r > 10,
\* 'occasional' for 2 < r <= 10, 'rare' for 0.1 < r <= 2, 'none' for
\* r <= 0.1 (r = 0 when the duration is 0).
C16_FrequencyFromRate ==
    Returned("classify_pattern") =>
        result.spike_frequency =
            rate_class(Len(call.spikes.events), call.n_timestamps, call.step)

\* the calls on which the returned class differs from the class of the exact
\* rate are those whose exact rate is 10 while the computed one is above it
C16_OnlyAtRoundedBoundary ==
    (Returned("classify_pattern") /\ ~C16_FrequencyFromRate) =>
        /\ Len(call.spikes.events) * 86400
               = 10 * call.n_timestamps * call.step
        /\ result.spike_frequency = "frequent"

\* the timestamps of the raw detections in increasing order
SortedTimestamps ==
    LET ts == AsSeq([i \in 1..Len(all_spikes) |-> all_spikes[i].timestamp])
    IN  AsSeq([k \in 1..Len(ts) |-> order_statistic(ts, k)])

\* the events take the detections in timestamp order, spike_count at a time
SpikeCounts == AsSeq([k \in 1..Len(events) |-> events[k].spike_count])

\* the event that holds the i-th detection in timestamp order
EventOf(i) ==
    CHOOSE k \in 1..Len(events) :
        /\ SumSeq(SubSeq(SpikeCounts, 1, k - 1)) < i
        /\ i <= SumSeq(SubSeq(SpikeCounts, 1, k))

\* C17: two detections adjacent in timestamp order are in the same event if
\* and only if their timestamps differ by at most 10 minutes, whatever the
\* order in which the two channels produced them.
C17_SameEventIffWithinGap ==
    Clustered =>
        /\ SumSeq(SpikeCounts) = Len(all_spikes)
        /\ \A i \in 1..(Len(all_spikes) - 1) :
              (EventOf(i) = EventOf(i + 1))
                  <=> (SortedTimestamps[i + 1] - SortedTimestamps[i]
                          <= 10 * 60000)

\* the channels produced the detections out of timestamp order; a pair ten
\* minutes apart shares an event and a pair eleven minutes apart does not
C17_BoundaryGapsOutOfOrder ==
    /\ pc = "clustered"
    /\ \E i \in 1..(Len(all_spikes) - 1) :
          all_spikes[i].timestamp > all_spikes[i + 1].timestamp
    /\ \E i \in 1..(Len(all_spikes) - 1) :
          /\ SortedTimestamps[i + 1] - SortedTimestamps[i] = 10 * 60000
          /\ EventOf(i) = EventOf(i + 1)
    /\ \E i \in 1..(Len(all_spikes) - 1) :
          /\ SortedTimestamps[i + 1] - SortedTimestamps[i] = 11 * 60000
          /\ EventOf(i) # EventOf(i + 1)

\* the places, in timestamp order, of the first and last detection of event k
FirstOf(k) == SumSeq(SubSeq(SpikeCounts, 1, k - 1)) + 1

LastOf(k) == SumSeq(SubSeq(SpikeCounts, 1, k))

\* the raw detections whose timestamps lie in the span of event k
MembersOf(k) ==
    {i \in 1..Len(all_spikes) :
        /\ SortedTimestamps[FirstOf(k)] <= all_spikes[i].timestamp
        /\ all_spikes[i].timestamp <= SortedTimestamps[LastOf(k)]}

\* event k reports the median timestamp, the mean magnitude (to within the
\* rounding of the floating-point sum and division), the largest magnitude,
\* the span in minutes but at least 1, and the size of its cluster
MergedFieldsOf(k) ==
    LET e == events[k]
        members == SortedSeqOf(MembersOf(k))
        n == Len(members)
        magnitudes == AsSeq([j \in 1..n |-> all_spikes[members[j]].magnitude])
        total == SumSeq(magnitudes)
        ts == SubSeq(SortedTimestamps, FirstOf(k), LastOf(k))
    IN  /\ e.spike_count = n
        /\ 2 * e.timestamp =
               IF n % 2 = 1 THEN 2 * ts[(n + 1) \div 2]
               ELSE ts[n \div 2] + ts[n \div 2 + 1]
        /\ Abs(e.magnitude.num * n - total * e.magnitude.den)
                  * Pow2(MantissaBits)
               <= (n + 1) * total * e.magnitude.den
        /\ \E j \in 1..n : e.peak_magnitude = magnitudes[j]
        /\ \A j \in 1..n : e.peak_magnitude >= magnitudes[j]
        /\ e.duration_minutes * 60000 = Max2(60000, ts[n] - ts[1])

\* C18: a cluster of more than one detection becomes one event with the
\* median timestamp, the mean magnitude, the maximum as peak_magnitude,
\* duration_minutes = max(1, (max_ts - min_ts) / 60000) and spike_count the
\* cluster size; two detections 5 minutes apart and nothing else give a
\* single event with spike_count = 2 and duration_minutes >= 5.
C18_MergedEventFields ==
    Clustered =>
        /\ \A k \in 1..Len(events) :
              events[k].spike_count > 1 => MergedFieldsOf(k)
        /\ (/\ Len(all_spikes) = 2
            /\ SortedTimestamps[2] - SortedTimestamps[1] = 5 * 60000)
              => /\ Len(events) = 1
                 /\ events[1].spike_count = 2
                 /\ events[1].duration_minutes >= 5

\* two detections of different magnitudes five minutes apart were merged
C18_TwoSpikesFiveMinutesApart ==
    /\ pc = "clustered"
    /\ Len(all_spikes) = 2
    /\ all_spikes[2].timestamp - all_spikes[1].timestamp = 5 * 60000
    /\ all_spikes[1].magnitude # all_spikes[2].magnitude
    /\ Len(events) = 1
    /\ events[1].spike_count = 2

\* the inter-arrival intervals, in minutes, of the events of the call
IntervalsOf(evs) ==
    LET ts == AsSeq([k \in 1..Len(evs) |-> evs[k].timestamp])
    IN  AsSeq([i \in 1..(Len(evs) - 1) |->
            (order_statistic(ts, i + 1) - order_statistic(ts, i)) \div 60000])

\* the type that the thresholds 0.5 and 1.5 on cv = std / mean give:
\* cv^2 = (m * sq - sum^2) / sum^2 for m intervals of sum sum and squares sq
TypeByCv(m, sum, sq) ==
    LET var == m * sq - sum * sum
    IN  IF 4 * var < sum * sum THEN "regular"
        ELSE IF 4 * var > 9 * sum * sum THEN "bursty"
        ELSE "exponential"

SquaresOf(xs) == AsSeq([i \in 1..Len(xs) |-> xs[i] * xs[i]])

\* C19: fewer than 2 events give type 'insufficient-data' with the event
\* count; otherwise the type is 'regular' for cv < 0.5, 'exponential' for
\* 0.5 <= cv <= 1.5 and 'bursty' for cv > 1.5 (cv = std / mean of the
\* intervals), with lambda = 1 / mean_interval (1 when mean_interval = 0),
\* mean_interval_minutes and count = number of events.
C19_DistributionFit ==
    Returned("analyze_spike_distribution") =>
        LET n == Len(call.events)
            xs == IntervalsOf(call.events)
            m == n - 1
            sum == SumSeq(xs)
        IN  IF n < 2
            THEN result = [type |-> "insufficient-data", count |-> n]
            ELSE /\ result.count = n
                 /\ result.mean_interval_minutes.num * m
                        = sum * result.mean_interval_minutes.den
                 /\ IF sum = 0
                    THEN result.lambda.num = result.lambda.den
                    ELSE result.lambda.num * sum = m * result.lambda.den
                 /\ result.type \in {"regular", "exponential", "bursty"}
                 /\ sum > 0 =>
                        result.type = TypeByCv(m, sum, SumSeq(SquaresOf(xs)))

\* six events whose intervals have cv = 1.5 exactly were fitted
C19_UpperBoundaryFitted ==
    /\ Returned("analyze_spike_distribution")
    /\ Len(call.events) = 6
    /\ LET xs == IntervalsOf(call.events)
           sum == SumSeq(xs)
       IN  4 * (5 * SumSeq(SquaresOf(xs)) - sum * sum) = 9 * sum * sum
    /\ result.type = "exponential"
    /\ result.lambda.num * 4 = result.lambda.den

\* sample t (from 1) of the band at position p of the call's list,
\* interpolated to the sample length; an empty band contributes nothing
Upsampled(p, t) ==
    IF Len(call.detail_coeffs[p]) = 0 THEN 0
    ELSE interp_at(call.detail_coeffs[p], call.target_length, t - 1)

\* the result is empty without bands and else, sample by sample, the sum of
\* the interpolated bands, each weighted by 2^(k-1), where k numbers the bands
\* from the highest-frequency one (the last of the list, coeffs[1:] being
\* cD_L .. cD_1) if finest_first, and from the coarsest one (the first) if not
CombinedWith(finest_first) ==
    LET n == Len(call.detail_coeffs)
        k(p) == IF finest_first THEN n + 1 - p ELSE p
    IN  IF n = 0 THEN result = << >>
        ELSE /\ Len(result) = call.target_length
             /\ \A t \in 1..call.target_length :
                   result[t] =
                       SumSeq(AsSeq([p \in 1..n |->
                           (2 ^ (k(p) - 1)) * Upsampled(p, t)]))

\* C20: the combiner weights detail band k, k = 1 being the
\* highest-frequency band, by 2^(k-1) after interpolating it to the sample
\* length, and returns an empty vector when there are no detail bands.
C20_WeightsFromFinest ==
    Returned("combine_detail_coefficients") => CombinedWith(TRUE)

\* C20 as amended: the band at position k of the list, k = 1 being the
\* coarsest band and the last one the highest-frequency band, is weighted by
\* 2^(k-1) after interpolation to the sample length, so that the
\* highest-frequency band weighs most; no bands give an empty vector.
C20_WeightsFromCoarsest ==
    Returned("combine_detail_coefficients") => CombinedWith(FALSE)

\* three bands were combined and the highest-frequency one, although the
\* only one that is not zero, does not enter with weight 1
C20_FinestWeighsMost ==
    /\ Returned("combine_detail_coefficients")
    /\ Len(call.detail_coeffs) = 3
    /\ call.target_length = 3
    /\ call.detail_coeffs[1] = << >>
    /\ call.detail_coeffs[2] = << >>
    /\ call.detail_coeffs[3] = << FP, 0, -FP >>
    /\ result = << 4 * FP, 0, -4 * FP >>

\* n = 2^k for some k >= 0
IsPowerOfTwo(n) == \E k \in 0..30 : n = 2 ^ k

\* C21: for every input of length N >= 1, pad_to_power_of_two returns a
\* vector whose length is the smallest power of two >= N, whose first N
\* entries are the input and whose other entries all equal the input's last
\* sample, together with N; an input whose length is a power of two comes
\* back unchanged.
C21_PaddedToNextPowerOfTwo ==
    Returned("pad_to_power_of_two") =>
        LET x == call.signal
            N == Len(x)
            padded == result[1]
        IN  /\ result[2] = N
            /\ IsPowerOfTwo(Len(padded))
            /\ Len(padded) >= N
            /\ Len(padded) < 2 * N
            /\ \A i \in 1..N : padded[i] = x[i]
            /\ \A i \in (N + 1)..Len(padded) : padded[i] = x[N]
            /\ IsPowerOfTwo(N) => padded = x

\* five samples, the last one not zero, were padded to eight
C21_FivePaddedToEight ==
    /\ Returned("pad_to_power_of_two")
    /\ call.signal = << 0, 0, 0, 0, 7 >>
    /\ result = << << 0, 0, 0, 0, 7, 7, 7, 7 >>, 5 >>

\* C22: smooth_signal returns a vector of the same length as its input for
\* every input and every window size w, also for w larger than the input
\* length, and returns the input unchanged when w <= 1.
C22_SameLengthAsInput ==
    Returned("smooth_signal") =>
        /\ result.raised = "none"
        /\ Len(result.value) = Len(call.signal)
        /\ call.window_size <= 1 =>
              \A i \in 1..Len(call.signal) :
                  result.value[i] = [num |-> call.signal[i], den |-> 1]

\* what holds instead: the input comes back unchanged for w <= 1, an empty
\* input with w > 1 raises, and otherwise the result has max(N, w) entries
C22_LengthOfLongerOperand ==
    Returned("smooth_signal") =>
        IF call.window_size <= 1
        THEN /\ result.raised = "none"
             /\ Len(result.value) = Len(call.signal)
        ELSE IF Len(call.signal) = 0
        THEN result.raised = "ValueError"
        ELSE /\ result.raised = "none"
             /\ Len(result.value) = Max2(Len(call.signal), call.window_size)

\* a distribution was fitted: there were at least two events
Fitted == pc = "distributed" /\ distribution.type # "insufficient-data"

\* C23: the timestamps of the returned events are strictly increasing and
\* consecutive events are more than 10 minutes apart; hence a fitted
\* distribution has mean_interval_minutes > 10 and lambda < 0.1, and the
\* default lambda = 1 for mean_interval = 0 is never taken.
C23_EventsMoreThanTenMinutesApart ==
    /\ Clustered =>
          \A k \in 1..(Len(events) - 1) :
              events[k + 1].timestamp - events[k].timestamp > 10 * 60000
    /\ Fitted =>
          /\ distribution.mean_interval_minutes.num
                 > 10 * distribution.mean_interval_minutes.den
          /\ 10 * distribution.lambda.num < distribution.lambda.den
          /\ distribution.lambda.num # distribution.lambda.den

\* a distribution was fitted to events that lie as close as clustering
\* leaves them: every interval is 11 minutes
C23_FittedAtElevenMinutes ==
    /\ Fitted
    /\ Len(events) >= 3
    /\ \A k \in 1..(Len(events) - 1) :
          events[k + 1].timestamp - events[k].timestamp = 11 * 60000
    /\ distribution.mean_interval_minutes.num
           = 11 * distribution.mean_interval_minutes.den

\* C24: clustering conserves detections: every raw detection of the two
\* channels belongs to exactly one event, so the spike_count values of the
\* returned events add up to the number of raw detections, a sample index
\* detected by both channels counting twice.
C24_DetectionsConserved ==
    Clustered =>
        /\ SumSeq(SpikeCounts) = Len(all_spikes)
        /\ \A k \in 1..Len(events) :
              Cardinality(MembersOf(k)) = events[k].spike_count
        /\ \A i \in 1..Len(all_spikes) :
              Cardinality({k \in 1..Len(events) : i \in MembersOf(k)}) = 1

\* an index detected by both channels was clustered with another index
\* detected by one: three detections on two indices, one event of count 3
C24_BothChannelsCountedTwice ==
    /\ pc = "clustered"
    /\ Len(all_spikes) = 3
    /\ Cardinality({all_spikes[i].index : i \in 1..3}) = 2
    /\ Len(events) = 1
    /\ events[1].spike_count = 3

(***************************************************************************)
(* C25                                                                     *)
(***************************************************************************)
\* a confidence c with lo <= c <= hi
FracBetween(lo, c, hi) == ~FracLess(c, lo) /\ ~FracLess(hi, c)

\* C25: the coefficients of the baseline have confidences in [0, 1], the
\* verdict of _classify_pattern has a confidence in [0.3, 1], the model
\* carries that verdict, and validate_model of a model built by model() does
\* not emit the low-pattern-confidence warning.
C25_VerdictConfidenceAtLeastFloor ==
    /\ Classified =>
          /\ \A k \in 1..Len(baseline.coefficients) :
                FracBetween(Frac(0, 1), baseline.coefficients[k].confidence,
                            Frac(1, 1))
          /\ FracBetween(Frac(3, 10), pattern.confidence, Frac(1, 1))
    /\ pc \in {"done", "validated"} => model.pattern = pattern
    /\ pc = "validated" =>
          \A k \in 1..Len(warnings) : warnings[k] # <<"Low pattern confidence">>

\* C25 witness: a validated model whose verdict is 'mixed' with no band
\* confidence above the floor, so that its confidence is exactly 0.3, and
\* which draws another warning but not the low-confidence one
C25_MixedAtFloorValidated ==
    /\ pc = "validated"
    /\ pattern.type = "mixed"
    /\ ~pattern.daily /\ ~pattern.weekly /\ ~pattern.seasonal
    /\ ~FracLess(pattern.confidence, Frac(3, 10))
    /\ ~FracLess(Frac(3, 10), pattern.confidence)
    /\ Len(warnings) > 0

(***************************************************************************)
(* C26                                                                     *)
(***************************************************************************)
\* the list of bands has no empty band, so that both combiners take every
\* band into their sum
AllBandsPresent(details) == \A p \in 1..Len(details) : Len(details[p]) > 0

\* C26: for the same ordered list of detail bands, get_high_frequency_component
\* and _combine_detail_coefficients give each band the same weight: the band
\* at position p of the list gets 2^(p-1) from both, and so the two combined
\* vectors, taken at the same length, are the same.
C26_CombinersAgreeOnWeights ==
    Returned("get_high_frequency_component") /\ result.raised = "none"
        /\ AllBandsPresent(call.details) =>
        /\ \A p \in 1..Len(call.details) :
              hf_weight(Len(call.details) - p) = band_weight(p - 1)
        /\ result.value =
              combine_detail_coefficients(call.details, Len(result.value))

\* what get_high_frequency_component does: position p of n bands is weighted
\* by 2^(n-p), the reverse of _combine_detail_coefficients, so that the two
\* agree on every band only for lists of at most one band; the result has
\* the length of the last band
C26_WeightsReversed ==
    Returned("get_high_frequency_component") /\ result.raised = "none" =>
        LET n == Len(call.details)
            reversed == AsSeq([p \in 1..n |-> call.details[n + 1 - p]])
        IN  /\ (\A p \in 1..n : hf_weight(n - p) = band_weight(p - 1))
                  <=> (n <= 1)
            /\ AllBandsPresent(call.details) =>
                  result.value =
                      combine_detail_coefficients(reversed, Len(result.value))
            /\ n > 0 => Len(result.value) = Len(call.details[n])
            /\ n = 0 => result.value = << >>

====
